---------------------------- MODULE Spec2Model ----------------------------
(***************************************************************************)
(* Model of the parameter-driven query construction engine of              *)
(* sql-experiment: the relative date resolver (parse_relative_date), the   *)
(* time-off filter compiler (get_time_off) and the employee filter         *)
(* compiler (get_employees).                                               *)
(*                                                                         *)
(* Conventions.                                                            *)
(*  - A Python str is a tuple of one-character strings, so that lower(),   *)
(*    strip(), split(), `in` and the regular expressions of the source are *)
(*    computed and not assumed.                                            *)
(*  - Optional[T] is a tuple of length 0 (None) or 1 (the value).          *)
(*  - A datetime.date is a tuple <<year, month, day>>.                     *)
(*  - An f-string message is a record: its constant text with the          *)
(*    interpolated values beside it.                                       *)
(*  - A peewee query is the plan it denotes: projection, joins, the list   *)
(*    of where-clauses (conjoined), group-by and order-by.                 *)
(***************************************************************************)
EXTENDS Integers, Sequences, FiniteSets, TLC

VARIABLES
    tool,      \* the entry point this run calls
    pc,        \* position inside the entry point
    today,     \* datetime.now().date() during the call
    intent0,   \* the intent (or date expression) as the caller built it
    params,    \* the intent object (the caller's object: preprocess mutates it)
    query,     \* the plan under construction
    fields,    \* the group-by fields returned by the base query builder
    result,    \* what the entry point returned
    trace      \* the steps that ran, in order

vars == <<tool, pc, today, intent0, params, query, fields, result, trace>>

---------------------------------------------------------------------------
(* Python values *)

None == <<>>
Some(v) == <<v>>
IsNone(o) == Len(o) = 0
Val(o) == o[1]

\* bool(x) of an Optional[str], Optional[list]: None and the empty value are falsy
Truthy(o) == Len(o) = 1 /\ Len(o[1]) > 0

\* bool(x) of an Optional[bool]
TruthyBool(o) == Len(o) = 1 /\ o[1]

Min(a, b) == IF a <= b THEN a ELSE b

---------------------------------------------------------------------------
(* str methods *)

UpperChars == <<"A", "B", "C", "D", "E", "F", "G", "H", "I", "J", "K", "L", "M",
                "N", "O", "P", "Q", "R", "S", "T", "U", "V", "W", "X", "Y", "Z">>
LowerChars == <<"a", "b", "c", "d", "e", "f", "g", "h", "i", "j", "k", "l", "m",
                "n", "o", "p", "q", "r", "s", "t", "u", "v", "w", "x", "y", "z">>

LowerChar(c) ==
    IF \E i \in 1..26 : UpperChars[i] = c
    THEN LowerChars[CHOOSE i \in 1..26 : UpperChars[i] = c]
    ELSE c

\* s.lower()
Lower(s) == [i \in 1..Len(s) |-> LowerChar(s[i])]

IsSpace(c) == c \in {" ", "\t", "\n"}

RECURSIVE LStrip(_)
LStrip(s) == IF Len(s) > 0 /\ IsSpace(s[1]) THEN LStrip(Tail(s)) ELSE s

RECURSIVE RStrip(_)
RStrip(s) ==
    IF Len(s) > 0 /\ IsSpace(s[Len(s)]) THEN RStrip(SubSeq(s, 1, Len(s) - 1)) ELSE s

\* s.strip()
Strip(s) == RStrip(LStrip(s))

\* s.rstrip(c)
RECURSIVE RStripChar(_, _)
RStripChar(s, c) ==
    IF Len(s) > 0 /\ s[Len(s)] = c THEN RStripChar(SubSeq(s, 1, Len(s) - 1), c) ELSE s

\* s.startswith(p): a regular expression's literal prefix under re.match
StartsWith(s, p) == Len(s) >= Len(p) /\ SubSeq(s, 1, Len(p)) = p

Drop(s, n) == SubSeq(s, n + 1, Len(s))

\* sub in s
Contains(s, sub) ==
    \E i \in 0..(Len(s) - Len(sub)) : SubSeq(s, i + 1, i + Len(sub)) = sub

\* s.split(sep) for a one-character separator: empty pieces are kept
RECURSIVE SplitAcc(_, _, _)
SplitAcc(s, sep, cur) ==
    IF Len(s) = 0 THEN <<cur>>
    ELSE IF s[1] = sep THEN <<cur>> \o SplitAcc(Tail(s), sep, <<>>)
    ELSE SplitAcc(Tail(s), sep, Append(cur, s[1]))

Split(s, sep) == SplitAcc(s, sep, <<>>)

DigitChars == <<"0", "1", "2", "3", "4", "5", "6", "7", "8", "9">>

IsDigit(c) == \E i \in 1..10 : DigitChars[i] = c

DigitVal(c) == (CHOOSE i \in 1..10 : DigitChars[i] = c) - 1

AllDigits(s) == \A i \in 1..Len(s) : IsDigit(s[i])

\* int(s) of a string of digits
RECURSIVE ToInt(_)
ToInt(s) ==
    IF Len(s) = 0 THEN 0
    ELSE 10 * ToInt(SubSeq(s, 1, Len(s) - 1)) + DigitVal(s[Len(s)])

\* str(n) of a natural number
RECURSIVE ToStr(_)
ToStr(n) ==
    IF n < 10 THEN <<DigitChars[n + 1]>>
    ELSE Append(ToStr(n \div 10), DigitChars[(n % 10) + 1])

\* the longest prefix of digits: what (\d+) takes before a non-digit
RECURSIVE DigitPrefixLen(_)
DigitPrefixLen(s) ==
    IF Len(s) > 0 /\ IsDigit(s[1]) THEN 1 + DigitPrefixLen(Tail(s)) ELSE 0

\* [x for x in xs if x in keep]
RECURSIVE FilterIn(_, _)
FilterIn(xs, keep) ==
    IF Len(xs) = 0 THEN <<>>
    ELSE (IF xs[1] \in keep THEN <<xs[1]>> ELSE <<>>) \o FilterIn(Tail(xs), keep)

\* [x for x in xs if x not in keep]
RECURSIVE FilterNotIn(_, _)
FilterNotIn(xs, keep) ==
    IF Len(xs) = 0 THEN <<>>
    ELSE (IF xs[1] \in keep THEN <<>> ELSE <<xs[1]>>) \o FilterNotIn(Tail(xs), keep)

Range(xs) == {xs[i] : i \in 1..Len(xs)}

---------------------------------------------------------------------------
(* f-string messages *)

Msg(tmpl, strs, nums, inner) ==
    [tmpl |-> tmpl, strs |-> strs, nums |-> nums, inner |-> inner]

NoMsg == Msg("", <<>>, <<>>, <<>>)

\* the message's text holds the string s (interpolated at any depth)
RECURSIVE Carries(_, _)
Carries(m, s) ==
    \/ \E i \in 1..Len(m.strs) : m.strs[i] = s
    \/ \E i \in 1..Len(m.inner) : Carries(m.inner[i], s)

---------------------------------------------------------------------------
(* datetime.date *)

MINYEAR == 1
MAXYEAR == 9999

IsLeap(y) == (y % 4 = 0) /\ ((y % 100 # 0) \/ (y % 400 = 0))

DaysInMonth(y, m) ==
    IF m = 2 THEN (IF IsLeap(y) THEN 29 ELSE 28)
    ELSE IF m \in {4, 6, 9, 11} THEN 30 ELSE 31

\* date(y, m, d) does not raise ValueError
ValidDate(y, m, d) ==
    /\ y >= MINYEAR /\ y <= MAXYEAR
    /\ m >= 1 /\ m <= 12
    /\ d >= 1 /\ d <= DaysInMonth(y, m)

RECURSIVE DaysBeforeMonth(_, _)
DaysBeforeMonth(y, m) ==
    IF m = 1 THEN 0 ELSE DaysBeforeMonth(y, m - 1) + DaysInMonth(y, m - 1)

DaysBeforeYear(y) ==
    365 * (y - 1) + ((y - 1) \div 4) - ((y - 1) \div 100) + ((y - 1) \div 400)

\* date.toordinal()
Ordinal(dt) == DaysBeforeYear(dt[1]) + DaysBeforeMonth(dt[1], dt[2]) + dt[3]

NextDay(dt) ==
    IF dt[3] < DaysInMonth(dt[1], dt[2]) THEN <<dt[1], dt[2], dt[3] + 1>>
    ELSE IF dt[2] < 12 THEN <<dt[1], dt[2] + 1, 1>>
    ELSE <<dt[1] + 1, 1, 1>>

PrevDay(dt) ==
    IF dt[3] > 1 THEN <<dt[1], dt[2], dt[3] - 1>>
    ELSE IF dt[2] > 1 THEN <<dt[1], dt[2] - 1, DaysInMonth(dt[1], dt[2] - 1)>>
    ELSE <<dt[1] - 1, 12, 31>>

\* dt + timedelta(days=k)
RECURSIVE AddDays(_, _)
AddDays(dt, k) ==
    IF k = 0 THEN dt
    ELSE IF k > 0 THEN AddDays(NextDay(dt), k - 1)
    ELSE AddDays(PrevDay(dt), k + 1)

\* a < b, a <= b on dates (and on the ISO text SQLite compares)
DateLT(a, b) ==
    \/ a[1] < b[1]
    \/ a[1] = b[1] /\ a[2] < b[2]
    \/ a[1] = b[1] /\ a[2] = b[2] /\ a[3] < b[3]

DateLE(a, b) == a = b \/ DateLT(a, b)

\* the text %d of strptime matches: one or two digits, or a blank and a digit
\* from 1 to 9
DayText(s) ==
    \/ Len(s) \in {1, 2} /\ AllDigits(s)
    \/ Len(s) = 2 /\ s[1] = " " /\ IsDigit(s[2]) /\ s[2] # "0"

\* int(s) of such a text
DayInt(s) == IF s[1] = " " THEN ToInt(Tail(s)) ELSE ToInt(s)

\* datetime.strptime(s, "%Y-%m-%d"): four digits of year, one or two of month
\* and of day; ok is FALSE where it raises ValueError
Strptime(s) ==
    LET parts == Split(s, "-")
        shape == /\ Len(parts) = 3
                 /\ Len(parts[1]) = 4 /\ AllDigits(parts[1])
                 /\ Len(parts[2]) \in {1, 2} /\ AllDigits(parts[2])
                 /\ DayText(parts[3])
    IN  IF shape /\ ValidDate(ToInt(parts[1]), ToInt(parts[2]), DayInt(parts[3]))
        THEN [ok |-> TRUE,
              date |-> <<ToInt(parts[1]), ToInt(parts[2]), DayInt(parts[3])>>]
        ELSE [ok |-> FALSE, date |-> <<>>]

\* re.match(r"^\d{4}-\d{2}-\d{2}$", s)
IsoShape(s) ==
    /\ Len(s) = 10
    /\ \A i \in {1, 2, 3, 4, 6, 7, 9, 10} : IsDigit(s[i])
    /\ s[5] = "-" /\ s[8] = "-"

---------------------------------------------------------------------------
(* parse_relative_date: src/tools/employee_time_off.py:185-282 *)

s_today == <<"t", "o", "d", "a", "y">>
s_tomorrow == <<"t", "o", "m", "o", "r", "r", "o", "w">>
s_yesterday == <<"y", "e", "s", "t", "e", "r", "d", "a", "y">>
s_next_week == <<"n", "e", "x", "t", " ", "w", "e", "e", "k">>
s_last_week == <<"l", "a", "s", "t", " ", "w", "e", "e", "k">>
s_next_month == <<"n", "e", "x", "t", " ", "m", "o", "n", "t", "h">>
s_last_month == <<"l", "a", "s", "t", " ", "m", "o", "n", "t", "h">>
s_next_year == <<"n", "e", "x", "t", " ", "y", "e", "a", "r">>
s_last_year == <<"l", "a", "s", "t", " ", "y", "e", "a", "r">>
s_in == <<"i", "n", " ">>
s_ago == <<" ", "a", "g", "o">>
s_day == <<"d", "a", "y">>
s_days == <<"d", "a", "y", "s">>
s_week == <<"w", "e", "e", "k">>
s_weeks == <<"w", "e", "e", "k", "s">>
s_month == <<"m", "o", "n", "t", "h">>
s_months == <<"m", "o", "n", "t", "h", "s">>
s_year == <<"y", "e", "a", "r">>
s_years == <<"y", "e", "a", "r", "s">>

\* (day|days|week|weeks|month|months|year|years), in the order re tries them
UnitAlternatives ==
    <<s_day, s_days, s_week, s_weeks, s_month, s_months, s_year, s_years>>

\* what parse_relative_date does: return (date, None), return (None, error),
\* or let a ValueError escape
PROk(d) == [kind |-> "ok", date |-> d, msg |-> NoMsg]
PRErr(m) == [kind |-> "err", date |-> <<>>, msg |-> m]
PRRaise(m) == [kind |-> "raise", date |-> <<>>, msg |-> m]

\* date(y, m, d) as the value of a return statement
DateOrRaise(a) ==
    IF ValidDate(a[1], a[2], a[3]) THEN PROk(a)
    ELSE PRRaise(Msg("ValueError: date value out of range", <<>>, <<>>, <<>>))

\* the clamp of lines 214-221 and 226-233
ClampDay(d, month) ==
    Min(d, IF month = 2 THEN 28 ELSE IF month \in {4, 6, 9, 11} THEN 30 ELSE 31)

\* the arguments of the four date(...) calls of relative_date_mapping
NextMonthArgs(td) ==
    <<td[1] + (IF td[2] = 12 THEN 1 ELSE 0),
      IF td[2] = 12 THEN 1 ELSE td[2] + 1,
      ClampDay(td[3], (td[2] % 12) + 1)>>

LastMonthArgs(td) ==
    <<td[1] - (IF td[2] = 1 THEN 1 ELSE 0),
      IF td[2] = 1 THEN 12 ELSE td[2] - 1,
      ClampDay(td[3], td[2] - 1)>>

NextYearArgs(td) == <<td[1] + 1, td[2], td[3]>>

LastYearArgs(td) == <<td[1] - 1, td[2], td[3]>>

\* the dict literal is evaluated whole before any lookup: one invalid date(...)
\* raises ValueError out of parse_relative_date
MappingBuilds(td) ==
    \A a \in {NextMonthArgs(td), LastMonthArgs(td), NextYearArgs(td), LastYearArgs(td)} :
        ValidDate(a[1], a[2], a[3])

relative_date_mapping(td) ==
    [k \in {s_today, s_tomorrow, s_yesterday, s_next_week, s_last_week,
            s_next_month, s_last_month, s_next_year, s_last_year} |->
        CASE k = s_today -> td
          [] k = s_tomorrow -> AddDays(td, 1)
          [] k = s_yesterday -> AddDays(td, -1)
          [] k = s_next_week -> AddDays(td, 7)
          [] k = s_last_week -> AddDays(td, -7)
          [] k = s_next_month -> NextMonthArgs(td)
          [] k = s_last_month -> LastMonthArgs(td)
          [] k = s_next_year -> NextYearArgs(td)
          [] k = s_last_year -> LastYearArgs(td)]

\* the first alternative, in order, that s starts with and after which
\* `after` follows; 0 if none
FirstUnit(s, after) ==
    LET ok(i) == StartsWith(s, UnitAlternatives[i] \o after)
    IN  IF \E i \in 1..8 : ok(i)
        THEN CHOOSE i \in 1..8 : ok(i) /\ \A j \in 1..(i - 1) : ~ok(j)
        ELSE 0

NoMatch == [matched |-> FALSE, amount |-> 0, unit |-> <<>>]

\* re.match(r"in (\d+) (day|days|week|weeks|month|months|year|years)", s)
in_pattern(s) ==
    IF ~StartsWith(s, s_in) THEN NoMatch
    ELSE LET rest == Drop(s, 3)
             n == DigitPrefixLen(rest)
             tail == Drop(rest, n)
         IN  IF n = 0 \/ Len(tail) = 0 \/ tail[1] # " " THEN NoMatch
             ELSE LET u == FirstUnit(Drop(tail, 1), <<>>)
                  IN  IF u = 0 THEN NoMatch
                      ELSE [matched |-> TRUE, amount |-> ToInt(SubSeq(rest, 1, n)),
                            unit |-> UnitAlternatives[u]]

\* re.match(r"(\d+) (day|days|week|weeks|month|months|year|years) ago", s)
ago_pattern(s) ==
    LET n == DigitPrefixLen(s)
        tail == Drop(s, n)
    IN  IF n = 0 \/ Len(tail) = 0 \/ tail[1] # " " THEN NoMatch
        ELSE LET u == FirstUnit(Drop(tail, 1), s_ago)
             IN  IF u = 0 THEN NoMatch
                 ELSE [matched |-> TRUE, amount |-> ToInt(SubSeq(s, 1, n)),
                       unit |-> UnitAlternatives[u]]

\* lines 251-280: the offset of a matched pattern
PatternDate(td, inp, agop) ==
    LET pattern == IF inp.matched THEN inp ELSE agop
        amount == pattern.amount
        unit == RStripChar(pattern.unit, "s")
        multiplier == IF inp.matched THEN 1 ELSE -1
        target_month0 == td[2] + (amount * multiplier)
        target_year == td[1] + ((target_month0 - 1) \div 12)
        target_month == ((target_month0 - 1) % 12) + 1
    IN  IF unit = s_day THEN PROk(AddDays(td, amount * multiplier))
        ELSE IF unit = s_week THEN PROk(AddDays(td, 7 * amount * multiplier))
        ELSE IF unit = s_month
        THEN DateOrRaise(<<target_year, target_month, ClampDay(td[3], target_month)>>)
        ELSE DateOrRaise(<<td[1] + (amount * multiplier), td[2], td[3]>>)

\* lines 204-282: reached only when strptime raised ValueError
RelativePart(v, td) ==
    IF ~MappingBuilds(td)
    THEN PRRaise(Msg("ValueError: day is out of range for month", <<>>, <<>>, <<>>))
    ELSE IF v \in DOMAIN relative_date_mapping(td)
    THEN PROk(relative_date_mapping(td)[v])
    ELSE IF in_pattern(v).matched \/ ago_pattern(v).matched
    THEN PatternDate(td, in_pattern(v), ago_pattern(v))
    ELSE PRErr(Msg("Unrecognized date format: {date_value}", <<v>>, <<>>, <<>>))

\* lines 194-202: the else branch returns for every text that is not of the
\* shape dddd-dd-dd, before the relative forms are looked at
ExactPart(v, td) ==
    IF IsoShape(v)
    THEN IF Strptime(v).ok THEN PROk(Strptime(v).date) ELSE RelativePart(v, td)
    ELSE PRErr(Msg("Invalid date format. Only YYYY-MM-DD is supported.", <<>>, <<>>, <<>>))

parse_relative_date(date_value, td) ==
    IF Len(date_value) = 0
    THEN PRErr(Msg("Invalid date value: {date_value}", <<date_value>>, <<>>, <<>>))
    ELSE ExactPart(Strip(Lower(date_value)), td)

---------------------------------------------------------------------------
(* The plan: what a peewee query denotes *)

\* terms
Col(name) == [t |-> "col", name |-> name]
DateOf(name) == [t |-> "date_of", name |-> name]     \* fn.date(column)
DateNow == [t |-> "date_now"]                         \* fn.date("now")
DateLit(d) == [t |-> "date", d |-> d]                 \* a Python date as a parameter
IntLit(n) == [t |-> "int", n |-> n]
StrLit(s) == [t |-> "str", s |-> s]
BoolLit(b) == [t |-> "bool", b |-> b]
JulianDay(name) == [t |-> "julianday", name |-> name] \* fn.julianday(column)
Sub(a, b) == [t |-> "sub", a |-> a, b |-> b]
Add(a, b) == [t |-> "add", a |-> a, b |-> b]
LowerOf(name) == [t |-> "lower", name |-> name]       \* fn.LOWER(column)
MonthOf(name) == [t |-> "month_of", name |-> name]    \* CAST(strftime('%m', column) AS INTEGER)
DayOf(name) == [t |-> "day_of", name |-> name]        \* CAST(strftime('%d', column) AS INTEGER)

\* expressions
Cmp(rel, l, r) == [op |-> "cmp", rel |-> rel, l |-> l, r |-> r]
And(a, b) == [op |-> "and", a |-> a, b |-> b]
Or(a, b) == [op |-> "or", a |-> a, b |-> b]
ContainsExpr(l, s) == [op |-> "contains", l |-> l, s |-> s]   \* column.contains(s)
InExpr(l, list) == [op |-> "in", l |-> l, list |-> list]      \* column.in_(list)
IsTrue(name) == [op |-> "is_true", name |-> name]             \* a bare boolean column

\* one where(...) call: the expression, and the source statement that added it
Clause(stage, expr) == [stage |-> stage, expr |-> expr]

\* query.where(expr): conjoined with what is there
Where(q, stage, expr) == [q EXCEPT !.where = Append(@, Clause(stage, expr))]

\* the value of a term on a row at the date `now`: an integer, a date, a string
\* or a boolean according to the term
RECURSIVE TermVal(_, _, _)
TermVal(term, row, now) ==
    CASE term.t = "col" -> row[term.name]
      [] term.t = "date_of" -> row[term.name]
      [] term.t = "date_now" -> now
      [] term.t = "date" -> term.d
      [] term.t = "int" -> term.n
      [] term.t = "str" -> term.s
      [] term.t = "bool" -> term.b
      [] term.t = "julianday" -> Ordinal(row[term.name])
      [] term.t = "sub" -> TermVal(term.a, row, now) - TermVal(term.b, row, now)
      [] term.t = "add" -> TermVal(term.a, row, now) + TermVal(term.b, row, now)
      [] term.t = "lower" -> Lower(row[term.name])
      [] term.t = "month_of" -> row[term.name][2]
      [] term.t = "day_of" -> row[term.name][3]

\* dates are compared as SQLite compares their YYYY-MM-DD text
IsDateTerm(term) == term.t \in {"date_of", "date_now", "date"}

Compare(rel, a, b, asDate) ==
    CASE rel = "==" -> a = b
      [] rel = "<" -> IF asDate THEN DateLT(a, b) ELSE a < b
      [] rel = "<=" -> IF asDate THEN DateLE(a, b) ELSE a <= b
      [] rel = ">" -> IF asDate THEN DateLT(b, a) ELSE a > b
      [] rel = ">=" -> IF asDate THEN DateLE(b, a) ELSE a >= b

\* whether a row satisfies an expression (LIKE is case-insensitive in SQLite)
RECURSIVE Eval(_, _, _)
Eval(e, row, now) ==
    CASE e.op = "cmp" ->
            Compare(e.rel, TermVal(e.l, row, now), TermVal(e.r, row, now), IsDateTerm(e.l))
      [] e.op = "and" -> Eval(e.a, row, now) /\ Eval(e.b, row, now)
      [] e.op = "or" -> Eval(e.a, row, now) \/ Eval(e.b, row, now)
      [] e.op = "contains" -> Contains(Lower(TermVal(e.l, row, now)), Lower(e.s))
      [] e.op = "in" -> \E i \in 1..Len(e.list) : TermVal(e.l, row, now) = e.list[i]
      [] e.op = "is_true" -> row[e.name]

\* the clauses a stage added, in order
RECURSIVE StageClauses(_, _)
StageClauses(where, stages) ==
    IF Len(where) = 0 THEN <<>>
    ELSE (IF where[1].stage \in stages THEN <<where[1]>> ELSE <<>>)
         \o StageClauses(Tail(where), stages)

\* whether a row satisfies every clause of a list
AllHold(clauses, row, now) ==
    \A i \in 1..Len(clauses) : Eval(clauses[i].expr, row, now)

EmptyQuery == [select |-> <<>>, join |-> <<>>, where |-> <<>>, group_by |-> <<>>,
               order_by |-> <<>>]

\* what an entry point or a filter stage returns: a query, or (False, message, text)
\* where the text is "" or str(query)
Fail(m, planText) == [ok |-> FALSE, msg |-> m, plan |-> planText]
Plan(q) == [ok |-> TRUE, msg |-> NoMsg, plan |-> <<q>>]
NoResult == [ok |-> FALSE, msg |-> NoMsg, plan |-> <<>>]

---------------------------------------------------------------------------
(* The time-off compiler: src/tools/employee_time_off.py *)

s_time_off == <<"t", "i", "m", "e", "_", "o", "f", "f">>
s_past == <<"p", "a", "s", "t">>
s_present == <<"p", "r", "e", "s", "e", "n", "t">>
s_future == <<"f", "u", "t", "u", "r", "e">>
s_pending == <<"p", "e", "n", "d", "i", "n", "g">>
s_approved == <<"a", "p", "p", "r", "o", "v", "e", "d">>
s_rejected == <<"r", "e", "j", "e", "c", "t", "e", "d">>
c_id == <<"i", "d">>
c_policy_type == <<"p", "o", "l", "i", "c", "y", "_", "t", "y", "p", "e">>
c_start_date == <<"s", "t", "a", "r", "t", "_", "d", "a", "t", "e">>
c_end_date == <<"e", "n", "d", "_", "d", "a", "t", "e">>
c_status == <<"s", "t", "a", "t", "u", "s">>
c_employee_id == <<"e", "m", "p", "l", "o", "y", "e", "e", "_", "i", "d">>
c_department == <<"d", "e", "p", "a", "r", "t", "m", "e", "n", "t">>
c_employee_name == <<"e", "m", "p", "l", "o", "y", "e", "e", "_", "n", "a", "m", "e">>
s_vacation == <<"v", "a", "c", "a", "t", "i", "o", "n">>
s_sick == <<"s", "i", "c", "k">>
s_annual == <<"a", "n", "n", "u", "a", "l">>
s_birthday == <<"b", "i", "r", "t", "h", "d", "a", "y">>
s_personal == <<"p", "e", "r", "s", "o", "n", "a", "l">>
s_bereavement == <<"b", "e", "r", "e", "a", "v", "e", "m", "e", "n", "t">>
s_parental == <<"p", "a", "r", "e", "n", "t", "a", "l">>
s_maternity == <<"m", "a", "t", "e", "r", "n", "i", "t", "y">>
s_paternity == <<"p", "a", "t", "e", "r", "n", "i", "t", "y">>
s_sp_leave == <<" ", "l", "e", "a", "v", "e">>
s_sp_day_off == <<" ", "d", "a", "y", " ", "o", "f", "f">>

\* the field defaults of TimeOffFilterParams (lines 15-72): type is "present",
\* every other optional field is None
TimeOffDefaults ==
    [query_type |-> Some(s_time_off), type |-> Some(s_present),
     from_date |-> None, to_date |-> None, policy_type |-> None, status |-> None,
     name |-> None, department |-> None, duration_min |-> None,
     duration_max |-> None, return_as_count |-> None, count_sort_desc |-> None,
     select_columns |-> None]

\* valid_columns of lines 112-121 and 473-482
valid_columns ==
    {c_id, c_policy_type, c_start_date, c_end_date, c_status, c_employee_id,
     c_department, c_employee_name}

\* lines 464-470: one string field of the intent, cleaned
CleanStr(key, o) ==
    IF IsNone(o) THEN o
    ELSE LET stripped == Strip(Val(o))
             clean_value ==
                 IF key \notin {"from_date", "to_date", "type"} /\ Len(stripped) > 0
                 THEN Lower(stripped) ELSE stripped
         IN  IF Len(clean_value) > 0 THEN Some(clean_value) ELSE None

\* lines 471-484: entries outside valid_columns are dropped, an empty list is None
CleanColumns(o) ==
    IF IsNone(o) THEN o
    ELSE LET filtered_columns == FilterIn(Val(o), valid_columns)
         IN  IF Len(filtered_columns) > 0 THEN Some(filtered_columns) ELSE None

\* policy_map of lines 495-505, in insertion order: key, mapped value
policy_map ==
    << <<s_vacation, s_vacation \o s_sp_leave>>,
       <<s_sick, s_sick \o s_sp_leave>>,
       <<s_annual, s_annual \o s_sp_leave>>,
       <<s_birthday, s_birthday \o s_sp_day_off>>,
       <<s_personal, s_personal \o s_sp_leave>>,
       <<s_bereavement, s_bereavement \o s_sp_leave>>,
       <<s_parental, s_parental \o s_sp_leave>>,
       <<s_maternity, s_maternity \o s_sp_leave>>,
       <<s_paternity, s_paternity \o s_sp_leave>> >>

\* a faulty variant of MapPolicy: the last key contained in the text wins
MapPolicy_LastKey(policy) ==
    LET hit(i) == Contains(Lower(policy), policy_map[i][1])
    IN  IF \E i \in 1..Len(policy_map) : hit(i)
        THEN policy_map[CHOOSE i \in 1..Len(policy_map) :
                            hit(i) /\ \A j \in (i + 1)..Len(policy_map) : ~hit(j)][2]
        ELSE policy

\* lines 507-510: the first key, in order, contained in the lower-cased text
MapPolicy(policy) ==
    LET hit(i) == Contains(Lower(policy), policy_map[i][1])
    IN  IF \E i \in 1..Len(policy_map) : hit(i)
        THEN policy_map[CHOOSE i \in 1..Len(policy_map) :
                            hit(i) /\ \A j \in 1..(i - 1) : ~hit(j)][2]
        ELSE policy

\* params_preprocess of employee_time_off.py (lines 460-512)
params_preprocess_time_off(p) ==
    LET p1 == [p EXCEPT !.query_type = CleanStr("query_type", @),
                        !.type = CleanStr("type", @),
                        !.from_date = CleanStr("from_date", @),
                        !.to_date = CleanStr("to_date", @),
                        !.policy_type = CleanStr("policy_type", @),
                        !.status = CleanStr("status", @),
                        !.name = CleanStr("name", @),
                        !.department = CleanStr("department", @),
                        !.select_columns = CleanColumns(@)]
        p2 == IF TruthyBool(p1.return_as_count) /\ ~Truthy(p1.select_columns)
              THEN [p1 EXCEPT !.select_columns = Some(<<c_policy_type>>)]
              ELSE p1
    IN  IF Truthy(p2.policy_type)
        THEN [p2 EXCEPT !.policy_type = Some(MapPolicy(Val(@)))]
        ELSE p2

Valid == [ok |-> TRUE, msg |-> NoMsg]
Invalid(m) == [ok |-> FALSE, msg |-> m]

\* a faulty variant of DurationCheck: duration_min is not compared with duration_max
DurationCheck_NoOrder(p) ==
    IF ~IsNone(p.duration_min) /\ Val(p.duration_min) < 1
    THEN Invalid(Msg("duration_min must be at least 1", <<>>, <<>>, <<>>))
    ELSE IF ~IsNone(p.duration_max) /\ Val(p.duration_max) < 1
    THEN Invalid(Msg("duration_max must be at least 1", <<>>, <<>>, <<>>))
    ELSE Valid

\* lines 91-103
DurationCheck(p) ==
    IF ~IsNone(p.duration_min) /\ Val(p.duration_min) < 1
    THEN Invalid(Msg("duration_min must be at least 1", <<>>, <<>>, <<>>))
    ELSE IF ~IsNone(p.duration_max) /\ Val(p.duration_max) < 1
    THEN Invalid(Msg("duration_max must be at least 1", <<>>, <<>>, <<>>))
    ELSE IF /\ ~IsNone(p.duration_min) /\ ~IsNone(p.duration_max)
            /\ Val(p.duration_min) > Val(p.duration_max)
    THEN Invalid(Msg("duration_min ({}) cannot be greater than duration_max ({})",
                     <<>>, <<Val(p.duration_min), Val(p.duration_max)>>, <<>>))
    ELSE Valid

\* lines 111-131
ColumnsCheck(p) ==
    LET invalid_columns ==
            IF Truthy(p.select_columns)
            THEN FilterNotIn(Val(p.select_columns), valid_columns) ELSE <<>>
    IN  IF Len(invalid_columns) > 0
        THEN Invalid(Msg("Invalid select_columns: {}. Valid options are: {}",
                         invalid_columns, <<>>, <<>>))
        ELSE Valid

\* validate_time_off_params (lines 75-135). The intent is an instance of
\* TimeOffFilterParams: model_dump() has no key outside model_fields and
\* policy_type is a str, so the first two checks never fire.
validate_time_off_params(p) ==
    IF ~DurationCheck(p).ok THEN DurationCheck(p) ELSE ColumnsCheck(p)

\* field_mapping of lines 153-162
field_mapping(c) ==
    CASE c = c_id -> "TimeOff.id"
      [] c = c_policy_type -> "TimeOff.policy_type"
      [] c = c_start_date -> "TimeOff.start_date"
      [] c = c_end_date -> "TimeOff.end_date"
      [] c = c_status -> "TimeOff.status"
      [] c = c_employee_id -> "TimeOff.employee_id"
      [] c = c_department -> "Employees.department"
      [] c = c_employee_name -> "Employees.full_name"

RECURSIVE MapFields(_)
MapFields(cols) ==
    IF Len(cols) = 0 THEN <<>>
    ELSE (IF cols[1] \in valid_columns THEN <<field_mapping(cols[1])>> ELSE <<>>)
         \o MapFields(Tail(cols))

TimeOffJoin == <<"Employees ON TimeOff.employee_id = Employees.id">>

\* the always-on constraint of lines 147 and 180: Employees.is_active == True
TimeOffActive == Cmp("==", Col("is_active"), BoolLit(TRUE))

\* a faulty variant of build_time_off_base_query: the count query is built
\* without the is_active constraint
build_time_off_base_query_CountAll(p) ==
    IF ~TruthyBool(p.return_as_count)
    THEN [query |-> Where([EmptyQuery EXCEPT !.select = <<"TimeOff.*", "Employees.*">>,
                                             !.join = TimeOffJoin],
                          "is_active", TimeOffActive),
          fields |-> <<>>]
    ELSE LET fs == IF Truthy(p.select_columns)
                   THEN MapFields(Val(p.select_columns)) ELSE <<>>
         IN  [query |-> [EmptyQuery EXCEPT
                             !.select = fs \o <<"COUNT(DISTINCT TimeOff.id) AS total">>,
                             !.join = TimeOffJoin],
              fields |-> fs]

\* build_time_off_base_query (lines 138-182): the query and the fields
build_time_off_base_query(p) ==
    IF ~TruthyBool(p.return_as_count)
    THEN [query |-> Where([EmptyQuery EXCEPT !.select = <<"TimeOff.*", "Employees.*">>,
                                             !.join = TimeOffJoin],
                          "is_active", TimeOffActive),
          fields |-> <<>>]
    ELSE LET fs == IF Truthy(p.select_columns)
                   THEN MapFields(Val(p.select_columns)) ELSE <<>>
         IN  [query |-> Where([EmptyQuery EXCEPT
                                   !.select = fs \o <<"COUNT(DISTINCT TimeOff.id) AS total">>,
                                   !.join = TimeOffJoin],
                              "is_active", TimeOffActive),
              fields |-> fs]

\* what a filter stage returns: the query, or the tuple (False, message, text)
StageOk(q) == [ok |-> TRUE, query |-> q, msg |-> NoMsg, plan |-> <<>>]
StageErr(m, planText) == [ok |-> FALSE, query |-> EmptyQuery, msg |-> m, plan |-> planText]

\* a faulty variant of WindowExpr: the past window takes in records ending today
WindowExpr_PastInclusive(type) ==
    IF type = s_present
    THEN And(Cmp("<=", DateOf("start_date"), DateNow),
             Cmp(">=", DateOf("end_date"), DateNow))
    ELSE IF type = s_past THEN Cmp("<=", DateOf("end_date"), DateNow)
    ELSE Cmp(">", DateOf("start_date"), DateNow)

\* a faulty variant of WindowExpr: a record that starts today is future too
WindowExpr_FutureInclusive(type) ==
    IF type = s_present
    THEN And(Cmp("<=", DateOf("start_date"), DateNow),
             Cmp(">=", DateOf("end_date"), DateNow))
    ELSE IF type = s_past THEN Cmp("<", DateOf("end_date"), DateNow)
    ELSE Cmp(">=", DateOf("start_date"), DateNow)

\* lines 304-312: the window clause of the type tag
WindowExpr(type) ==
    IF type = s_present
    THEN And(Cmp("<=", DateOf("start_date"), DateNow),
             Cmp(">=", DateOf("end_date"), DateNow))
    ELSE IF type = s_past THEN Cmp("<", DateOf("end_date"), DateNow)
    ELSE Cmp(">", DateOf("start_date"), DateNow)

ApplyWindow(q, p) ==
    IF ~IsNone(p.type) /\ Val(p.type) \in {s_present, s_past, s_future}
    THEN Where(q, "window", WindowExpr(Val(p.type)))
    ELSE q

\* a faulty variant of RangeExpr: the spanning case is left out
RangeExpr_NoSpan(from_date, to_date) ==
    Or(And(Cmp(">=", DateOf("start_date"), DateLit(from_date)),
           Cmp("<=", DateOf("start_date"), DateLit(to_date))),
       And(Cmp(">=", DateOf("end_date"), DateLit(from_date)),
           Cmp("<=", DateOf("end_date"), DateLit(to_date))))

\* a faulty variant of RangeExpr: a record that ends on the first day of the
\* range does not end within it
RangeExpr_EndAfterFrom(from_date, to_date) ==
    Or(Or(And(Cmp(">=", DateOf("start_date"), DateLit(from_date)),
              Cmp("<=", DateOf("start_date"), DateLit(to_date))),
          And(Cmp(">", DateOf("end_date"), DateLit(from_date)),
              Cmp("<=", DateOf("end_date"), DateLit(to_date)))),
       And(Cmp("<=", DateOf("start_date"), DateLit(from_date)),
           Cmp(">=", DateOf("end_date"), DateLit(to_date))))

\* lines 325-339: starts within the range, or ends within it, or spans it
RangeExpr(from_date, to_date) ==
    Or(Or(And(Cmp(">=", DateOf("start_date"), DateLit(from_date)),
              Cmp("<=", DateOf("start_date"), DateLit(to_date))),
          And(Cmp(">=", DateOf("end_date"), DateLit(from_date)),
              Cmp("<=", DateOf("end_date"), DateLit(to_date)))),
       And(Cmp("<=", DateOf("start_date"), DateLit(from_date)),
           Cmp(">=", DateOf("end_date"), DateLit(to_date))))

\* a faulty variant of ApplyRange: the bounds are used in the order given
ApplyRange_NoSwap(q, from_date, to_date) ==
    IF Len(from_date) > 0 /\ Len(to_date) > 0
    THEN Where(q, "range", RangeExpr(from_date, to_date))
    ELSE LET q1 == IF Len(from_date) > 0
                   THEN Where(q, "from_only",
                              Cmp(">=", DateOf("start_date"), DateLit(from_date)))
                   ELSE q
         IN  IF Len(to_date) > 0
             THEN Where(q1, "to_only", Cmp("<=", DateOf("end_date"), DateLit(to_date)))
             ELSE q1

\* lines 315-354: from_date and to_date are dates, or <<>> for None
ApplyRange(q, from_date, to_date) ==
    IF Len(from_date) > 0 /\ Len(to_date) > 0
    THEN IF DateLT(to_date, from_date)
         THEN Where(q, "range", RangeExpr(to_date, from_date))
         ELSE Where(q, "range", RangeExpr(from_date, to_date))
    ELSE LET q1 == IF Len(from_date) > 0
                   THEN Where(q, "from_only",
                              Cmp(">=", DateOf("start_date"), DateLit(from_date)))
                   ELSE q
         IN  IF Len(to_date) > 0
             THEN Where(q1, "to_only", Cmp("<=", DateOf("end_date"), DateLit(to_date)))
             ELSE q1

\* a faulty variant of duration_expr: the day count leaves the last day out
duration_expr_Exclusive == Sub(JulianDay("end_date"), JulianDay("start_date"))

\* lines 360-364
duration_expr == Add(Sub(JulianDay("end_date"), JulianDay("start_date")), IntLit(1))

\* lines 357-370
ApplyDuration(q, p) ==
    LET q1 == IF ~IsNone(p.duration_min)
              THEN Where(q, "duration_min",
                         Cmp(">=", duration_expr, IntLit(Val(p.duration_min))))
              ELSE q
    IN  IF ~IsNone(p.duration_max)
        THEN Where(q1, "duration_max",
                   Cmp("<=", duration_expr, IntLit(Val(p.duration_max))))
        ELSE q1

\* apply_time_off_date_filters (lines 285-383). A ValueError out of
\* parse_relative_date is caught at line 376.
apply_time_off_date_filters(q, p, td) ==
    LET fromR == IF Truthy(p.from_date)
                 THEN parse_relative_date(Val(p.from_date), td) ELSE PROk(<<>>)
        toR == IF Truthy(p.to_date)
               THEN parse_relative_date(Val(p.to_date), td) ELSE PROk(<<>>)
    IN  IF fromR.kind = "raise"
        THEN StageErr(Msg("Date filtering error: {e}", <<>>, <<>>, <<fromR.msg>>), <<>>)
        ELSE IF fromR.kind = "err"
        THEN StageErr(Msg("Invalid from_date: {error}", <<>>, <<>>, <<fromR.msg>>), <<>>)
        ELSE IF toR.kind = "raise"
        THEN StageErr(Msg("Date filtering error: {e}", <<>>, <<>>, <<toR.msg>>), <<>>)
        ELSE IF toR.kind = "err"
        THEN StageErr(Msg("Invalid to_date: {error}", <<>>, <<>>, <<toR.msg>>), <<>>)
        ELSE StageOk(ApplyDuration(ApplyRange(ApplyWindow(q, p), fromR.date, toR.date), p))

\* lines 389-404
PolicyProbe(policy_value) ==
    IF policy_value \in {s_vacation, s_vacation \o s_sp_leave} THEN s_vacation
    ELSE IF policy_value \in {s_sick, s_sick \o s_sp_leave} THEN s_sick
    ELSE IF policy_value \in {s_annual, s_annual \o s_sp_leave} THEN s_annual
    ELSE IF policy_value \in {s_birthday, s_birthday \o s_sp_leave,
                              s_birthday \o s_sp_day_off} THEN s_birthday
    ELSE policy_value

\* apply_time_off_policy_filter (lines 386-411)
apply_time_off_policy_filter(q, p) ==
    LET q1 == IF Truthy(p.policy_type)
              THEN Where(q, "policy",
                         ContainsExpr(LowerOf("policy_type"),
                                      PolicyProbe(Lower(Val(p.policy_type)))))
              ELSE q
    IN  StageOk(IF Truthy(p.status)
                THEN Where(q1, "status", Cmp("==", Col("status"), StrLit(Val(p.status))))
                ELSE q1)

\* lines 418-420: one clause per piece that is not blank
RECURSIVE NameClauses(_, _, _)
NameClauses(q, parts, column) ==
    IF Len(parts) = 0 THEN q
    ELSE NameClauses(IF Len(Strip(parts[1])) > 0
                     THEN Where(q, "name", ContainsExpr(Col(column), Strip(parts[1])))
                     ELSE q,
                     Tail(parts), column)

\* apply_time_off_name_filter (lines 414-424)
apply_time_off_name_filter(q, p) ==
    StageOk(IF Truthy(p.name)
            THEN NameClauses(q, Split(Val(p.name), " "), "full_name")
            ELSE q)

\* apply_time_off_department_filter (lines 427-438)
apply_time_off_department_filter(q, p) ==
    StageOk(IF Truthy(p.department)
            THEN Where(q, "department",
                       ContainsExpr(LowerOf("department"), Lower(Val(p.department))))
            ELSE q)

\* format_time_off_results (lines 441-457): str(query) of the finished query
format_time_off_results(q, p, fs) ==
    IF TruthyBool(p.return_as_count) /\ Len(fs) > 0
    THEN [q EXCEPT !.group_by = fs,
                   !.order_by = IF TruthyBool(p.count_sort_desc)
                                THEN <<"COUNT(DISTINCT TimeOff.id) DESC">>
                                ELSE <<"COUNT(DISTINCT TimeOff.id)">>]
    ELSE q

---------------------------------------------------------------------------
(* get_time_off (lines 516-595), one action per step *)

\* the most optional fields of an intent the caller sets
MaxFields == 2

\* "%04d-%02d-%02d" of three numbers: the text of a date expression
Pad2(n) == IF n < 10 THEN <<"0">> \o ToStr(n) ELSE ToStr(n)
Pad4(n) ==
    IF n < 10 THEN <<"0", "0", "0">> \o ToStr(n)
    ELSE IF n < 100 THEN <<"0", "0">> \o ToStr(n)
    ELSE IF n < 1000 THEN <<"0">> \o ToStr(n) ELSE ToStr(n)
IsoText(dt) == Pad4(dt[1]) \o <<"-">> \o Pad2(dt[2]) \o <<"-">> \o Pad2(dt[3])

InPhrase(n, unit) == s_in \o ToStr(n) \o <<" ">> \o unit
AgoPhrase(n, unit) == ToStr(n) \o <<" ">> \o unit \o s_ago

c_ssn == <<"s", "s", "n">>
s_Vacation == <<"V", "a", "c", "a", "t", "i", "o", "n">>
s_unpaid == <<"u", "n", "p", "a", "i", "d">>
s_Annual_Sick == <<"A", "n", "n", "u", "a", "l", " ", "S", "i", "c", "k">>
s_Ana == <<"A", "n", "a">>
s_ana_maria == <<"a", "n", "a", " ", " ", "m", "a", "r", "i", "a">>
s_Ana_tab_Maria == <<"A", "n", "a", "\t", "M", "a", "r", "i", "a">>
s_Engineering == <<"E", "n", "g", "i", "n", "e", "e", "r", "i", "n", "g">>

\* the days on which the call is made
TimeOffTodays == {<<2025, 6, 15>>, <<2024, 2, 29>>}

\* the values a caller gives each field
TypeValues == {Some(s_past), Some(s_present), Some(s_future)}
FromDateValues ==
    {Some(IsoText(<<2025, 6, 5>>)), Some(IsoText(<<2025, 5, 1>>)),
     Some(IsoText(<<2025, 7, 1>>)), Some(IsoText(<<2025, 8, 1>>)),
     Some(<<" ">> \o IsoText(<<2025, 6, 20>>)), Some(s_next_month),
     Some(IsoText(<<2025, 2, 30>>))}
ToDateValues ==
    {Some(IsoText(<<2025, 6, 20>>)), Some(IsoText(<<2025, 7, 1>>)),
     Some(IsoText(<<2025, 8, 1>>)), Some(IsoText(<<2025, 6, 5>>)),
     Some(InPhrase(3, s_days)), Some(IsoText(<<2025, 13, 1>>))}
PolicyValues ==
    {Some(s_Vacation), Some(s_sick \o s_sp_leave), Some(s_Annual_Sick),
     Some(s_unpaid), Some(s_parental), Some(<<" ", " ">>)}
StatusValues == {Some(s_pending), Some(s_approved), Some(s_rejected)}
NameValues == {Some(s_Ana), Some(s_ana_maria), Some(s_Ana_tab_Maria), Some(<<" ">>)}
DepartmentValues == {Some(s_Engineering), Some(<<>>)}
DurationMinValues == {Some(0), Some(1), Some(5), Some(6)}
DurationMaxValues == {Some(0), Some(3), Some(5)}
FlagValues == {Some(TRUE), Some(FALSE)}
TimeOffColumnValues ==
    {Some(<<c_department>>), Some(<<c_status, c_ssn>>), Some(<<c_ssn>>), Some(<<>>),
     Some(<<c_employee_name, c_policy_type>>)}

TimeOffOptional ==
    {"type", "from_date", "to_date", "policy_type", "status", "name", "department",
     "duration_min", "duration_max", "return_as_count", "count_sort_desc",
     "select_columns"}

\* the sets of fields a caller may set
GivenSets(all) == {S \in SUBSET all : Cardinality(S) <= MaxFields}

\* the values of field f: those a caller gives if f is set, else its default
Pick(S, f, values, default) == IF f \in S THEN values ELSE {default}

\* TimeOffFilterParams(**given): the intents a caller can build
TimeOffFilterParams ==
    UNION {
      {[query_type |-> Some(s_time_off), type |-> ty, from_date |-> fd, to_date |-> td,
        policy_type |-> po, status |-> st, name |-> na, department |-> de,
        duration_min |-> dmin, duration_max |-> dmax, return_as_count |-> rac,
        count_sort_desc |-> csd, select_columns |-> sc] :
          ty \in Pick(S, "type", TypeValues, TimeOffDefaults.type),
          fd \in Pick(S, "from_date", FromDateValues, None),
          td \in Pick(S, "to_date", ToDateValues, None),
          po \in Pick(S, "policy_type", PolicyValues, None),
          st \in Pick(S, "status", StatusValues, None),
          na \in Pick(S, "name", NameValues, None),
          de \in Pick(S, "department", DepartmentValues, None),
          dmin \in Pick(S, "duration_min", DurationMinValues, None),
          dmax \in Pick(S, "duration_max", DurationMaxValues, None),
          rac \in Pick(S, "return_as_count", FlagValues, None),
          csd \in Pick(S, "count_sort_desc", FlagValues, None),
          sc \in Pick(S, "select_columns", TimeOffColumnValues, None)}
      : S \in GivenSets(TimeOffOptional)}

InitTimeOff ==
    /\ tool = "get_time_off"
    /\ pc = "preprocess"
    /\ today \in TimeOffTodays
    /\ params \in TimeOffFilterParams
    /\ intent0 = params
    /\ query = EmptyQuery
    /\ fields = <<>>
    /\ result = NoResult
    /\ trace = <<>>

\* line 541
TO_Preprocess ==
    /\ tool = "get_time_off" /\ pc = "preprocess"
    /\ params' = params_preprocess_time_off(params)
    /\ pc' = "validate"
    /\ trace' = Append(trace, "params_preprocess")
    /\ UNCHANGED <<tool, today, intent0, query, fields, result>>

\* a faulty variant of TO_Validate: the failure is noted and the call goes on
TO_Validate_GoesOn ==
    /\ tool = "get_time_off" /\ pc = "validate"
    /\ LET v == validate_time_off_params(params)
       IN  IF v.ok
           THEN pc' = "base" /\ UNCHANGED result
           ELSE pc' = "base" /\ result' = Fail(v.msg, <<>>)
    /\ trace' = Append(trace, "validate_time_off_params")
    /\ UNCHANGED <<tool, today, intent0, params, query, fields>>

\* lines 545-548
TO_Validate ==
    /\ tool = "get_time_off" /\ pc = "validate"
    /\ LET v == validate_time_off_params(params)
       IN  IF v.ok
           THEN pc' = "base" /\ UNCHANGED result
           ELSE pc' = "done" /\ result' = Fail(v.msg, <<>>)
    /\ trace' = Append(trace, "validate_time_off_params")
    /\ UNCHANGED <<tool, today, intent0, params, query, fields>>

\* lines 551-557
TO_BuildBase ==
    /\ tool = "get_time_off" /\ pc = "base"
    /\ query' = build_time_off_base_query(params).query
    /\ fields' = build_time_off_base_query(params).fields
    /\ pc' = "date"
    /\ trace' = Append(trace, "build_time_off_base_query")
    /\ UNCHANGED <<tool, today, intent0, params, result>>

\* lines 567-582: one turn of the loop over the filters; a tuple is returned
\* to the caller as it is
TO_Filter(at, name, r, next) ==
    /\ tool = "get_time_off" /\ pc = at
    /\ IF r.ok
       THEN query' = r.query /\ pc' = next /\ UNCHANGED result
       ELSE result' = Fail(r.msg, r.plan) /\ pc' = "done" /\ UNCHANGED query
    /\ trace' = Append(trace, name)
    /\ UNCHANGED <<tool, today, intent0, params, fields>>

TO_DateFilters ==
    TO_Filter("date", "apply_time_off_date_filters",
              apply_time_off_date_filters(query, params, today), "policy")

TO_PolicyFilter ==
    TO_Filter("policy", "apply_time_off_policy_filter",
              apply_time_off_policy_filter(query, params), "name")

TO_NameFilter ==
    TO_Filter("name", "apply_time_off_name_filter",
              apply_time_off_name_filter(query, params), "department")

TO_DepartmentFilter ==
    TO_Filter("department", "apply_time_off_department_filter",
              apply_time_off_department_filter(query, params), "format")

\* lines 585-590
TO_Format ==
    /\ tool = "get_time_off" /\ pc = "format"
    /\ result' = Plan(format_time_off_results(query, params, fields))
    /\ pc' = "done"
    /\ trace' = Append(trace, "format_time_off_results")
    /\ UNCHANGED <<tool, today, intent0, params, query, fields>>

NextTimeOff ==
    \/ TO_Preprocess
    \/ TO_Validate
    \/ TO_BuildBase
    \/ TO_DateFilters
    \/ TO_PolicyFilter
    \/ TO_NameFilter
    \/ TO_DepartmentFilter
    \/ TO_Format

SpecTimeOff == InitTimeOff /\ [][NextTimeOff]_vars

---------------------------------------------------------------------------
(* validate_date_format: src/tools/employee_profile.py:153-175 *)

YearMin == 1900
YearMax == 2100

VOk(s) == [kind |-> "ok", value |-> s, msg |-> NoMsg]
VErr(m) == [kind |-> "err", value |-> <<>>, msg |-> m]

\* a faulty variant of validate_date_format: the format error leaves the text out
validate_date_format_NoValue(date_str) ==
    IF Len(date_str) = 0 THEN VErr(Msg("Date string is empty", <<>>, <<>>, <<>>))
    ELSE IF Strptime(date_str).ok
    THEN IF Strptime(date_str).date[1] < YearMin \/ Strptime(date_str).date[1] > YearMax
         THEN VErr(Msg("Invalid year range (1900-2100)", <<>>, <<>>, <<>>))
         ELSE VOk(date_str)
    ELSE VErr(Msg("Invalid date format. Only YYYY-MM-DD format is supported.",
                  <<>>, <<>>, <<>>))

\* returns (date_str, None) or (None, error)
validate_date_format(date_str) ==
    IF Len(date_str) = 0 THEN VErr(Msg("Date string is empty", <<>>, <<>>, <<>>))
    ELSE IF Strptime(date_str).ok
    THEN IF Strptime(date_str).date[1] < YearMin \/ Strptime(date_str).date[1] > YearMax
         THEN VErr(Msg("Invalid year range (1900-2100)", <<>>, <<>>, <<>>))
         ELSE VOk(date_str)
    ELSE VErr(Msg("Invalid date format: {date_str}. Only YYYY-MM-DD format is supported.",
                  <<date_str>>, <<>>, <<>>))

---------------------------------------------------------------------------
(* The two date functions called on their own *)

\* the largest N of "in N <unit>" and "N <unit> ago"
MaxAmount == 3

s_Tomorrow == <<"T", "o", "m", "o", "r", "r", "o", "w">>
s_next_fortnight == <<"n", "e", "x", "t", " ", "f", "o", "r", "t", "n", "i", "g", "h", "t">>
s_soon == <<"s", "o", "o", "n">>
s_slashes == <<"0", "6", "/", "0", "5", "/", "2", "0", "2", "5">>
s_unpadded == <<"2", "0", "2", "5", "-", "6", "-", "5">>

LiteralPhrases ==
    {s_today, s_tomorrow, s_yesterday, s_next_week, s_last_week, s_next_month,
     s_last_month, s_next_year, s_last_year}

InPhrases == {InPhrase(n, UnitAlternatives[u]) : n \in 0..MaxAmount, u \in 1..8}
AgoPhrases == {AgoPhrase(n, UnitAlternatives[u]) : n \in 0..MaxAmount, u \in 1..8}

\* calendar dates with the year inside and outside 1900..2100
DatesInRange ==
    {<<1900, 1, 1>>, <<2100, 12, 31>>, <<2025, 6, 5>>, <<2024, 2, 29>>, <<2000, 2, 29>>,
     <<2025, 1, 31>>}
DatesOutOfRange ==
    {<<1899, 12, 31>>, <<2101, 1, 1>>, <<1800, 6, 15>>, <<1, 1, 1>>, <<9999, 12, 31>>}

\* triples that are no calendar date
NotDates == {<<2025, 2, 30>>, <<2025, 13, 1>>, <<0, 1, 1>>, <<2025, 0, 10>>, <<2023, 2, 29>>,
             <<2025, 4, 31>>}

\* texts that are neither a YYYY-MM-DD date nor a relative form
OtherTexts ==
    {s_next_fortnight, s_soon, s_slashes, s_unpadded,
     IsoText(<<2025, 6, 5>>) \o <<"T", "0", "0", ":", "0", "0">>}
    \cup {IsoText(dt) : dt \in NotDates}

DateInputs ==
    LiteralPhrases \cup InPhrases \cup AgoPhrases
    \cup {IsoText(dt) : dt \in DatesInRange \cup DatesOutOfRange}
    \cup OtherTexts
    \cup {s_Tomorrow, <<" ">> \o s_next_week \o <<" ">>, <<>>,
          <<" ">> \o IsoText(<<2025, 6, 5>>) \o <<" ">>}

DateTodays ==
    {<<2025, 1, 31>>, <<2024, 2, 29>>, <<2025, 12, 31>>, <<2025, 3, 31>>, <<2025, 6, 15>>}

InitDates ==
    /\ tool \in {"parse_relative_date", "validate_date_format"}
    /\ pc = "call"
    /\ today \in DateTodays
    /\ intent0 \in DateInputs
    /\ params = TimeOffDefaults
    /\ query = EmptyQuery
    /\ fields = <<>>
    /\ result = NoResult
    /\ trace = <<>>

Call_parse_relative_date ==
    /\ tool = "parse_relative_date" /\ pc = "call"
    /\ result' = parse_relative_date(intent0, today)
    /\ pc' = "done"
    /\ trace' = Append(trace, "parse_relative_date")
    /\ UNCHANGED <<tool, today, intent0, params, query, fields>>

Call_validate_date_format ==
    /\ tool = "validate_date_format" /\ pc = "call"
    /\ result' = validate_date_format(intent0)
    /\ pc' = "done"
    /\ trace' = Append(trace, "validate_date_format")
    /\ UNCHANGED <<tool, today, intent0, params, query, fields>>

NextDates ==
    \/ Call_parse_relative_date
    \/ Call_validate_date_format

SpecDates == InitDates /\ [][NextDates]_vars

Resolved == tool = "parse_relative_date" /\ pc = "done"
Validated == tool = "validate_date_format" /\ pc = "done"

---------------------------------------------------------------------------
(* The employee compiler: src/tools/employee_profile.py *)

s_employee == <<"e", "m", "p", "l", "o", "y", "e", "e">>
c_updated_at == <<"u", "p", "d", "a", "t", "e", "d", "_", "a", "t">>
c_full_name == <<"f", "u", "l", "l", "_", "n", "a", "m", "e">>
c_nationality == <<"n", "a", "t", "i", "o", "n", "a", "l", "i", "t", "y">>
c_is_manager == <<"i", "s", "_", "m", "a", "n", "a", "g", "e", "r">>
c_location == <<"l", "o", "c", "a", "t", "i", "o", "n">>
c_linkedin == <<"l", "i", "n", "k", "e", "d", "i", "n">>
c_twitter_x == <<"t", "w", "i", "t", "t", "e", "r", "_", "x">>
c_facebook == <<"f", "a", "c", "e", "b", "o", "o", "k">>
c_email == <<"e", "m", "a", "i", "l">>
c_is_active == <<"i", "s", "_", "a", "c", "t", "i", "v", "e">>
c_reports_to == <<"r", "e", "p", "o", "r", "t", "s", "_", "t", "o">>
c_birth_date == <<"b", "i", "r", "t", "h", "_", "d", "a", "t", "e">>
c_client == <<"c", "l", "i", "e", "n", "t">>
c_country == <<"c", "o", "u", "n", "t", "r", "y">>
c_twitter == <<"t", "w", "i", "t", "t", "e", "r">>
c_reports_to_id == <<"r", "e", "p", "o", "r", "t", "s", "_", "t", "o", "_", "i", "d">>
c_direct_reports == <<"d", "i", "r", "e", "c", "t", "_", "r", "e", "p", "o", "r", "t", "s">>
c_time_offs == <<"t", "i", "m", "e", "_", "o", "f", "f", "s">>
c_DoesNotExist ==
    <<"D", "o", "e", "s", "N", "o", "t", "E", "x", "i", "s", "t">>
s_Sales == <<"S", "a", "l", "e", "s">>
s_Lisbon == <<"L", "i", "s", "b", "o", "n">>
s_Rui_Silva == <<"R", "u", "i", " ", "S", "i", "l", "v", "a">>
s_Apollo == <<"A", "p", "o", "l", "l", "o">>
s_Internal == <<"I", "n", "t", "e", "r", "n", "a", "l">>
s_Nov_15 == <<"N", "o", "v", " ", "1", "5">>
s_blank_day == <<"2", "0", "2", "5", "-", "0", "6", "-", " ", "5">>
s_unpadded_june == <<"2", "0", "2", "5", "-", "6", "-", "1">>
fn_name_filter ==
    <<"n", "a", "m", "e", "_", "f", "i", "l", "t", "e", "r">>
fn_manager_filter ==
    <<"m", "a", "n", "a", "g", "e", "r", "_", "f", "i", "l", "t", "e", "r">>
fn_location_filter ==
    <<"l", "o", "c", "a", "t", "i", "o", "n", "_", "f", "i", "l", "t", "e", "r">>
fn_reports_to_filter ==
    <<"r", "e", "p", "o", "r", "t", "s", "_", "t", "o", "_", "f", "i", "l", "t", "e", "r">>
fn_birthday_filter ==
    <<"b", "i", "r", "t", "h", "d", "a", "y", "_", "f", "i", "l", "t", "e", "r">>
fn_client_filter ==
    <<"c", "l", "i", "e", "n", "t", "_", "f", "i", "l", "t", "e", "r">>
fn_department_filter ==
    <<"d", "e", "p", "a", "r", "t", "m", "e", "n", "t", "_", "f", "i", "l", "t", "e", "r">>

\* the field defaults of EmployeeFilterParams (lines 16-84): every optional
\* field is None
EmployeeDefaults ==
    [query_type |-> Some(s_employee), select_columns |-> None, name |-> None,
     department |-> None, is_manager |-> None, location |-> None,
     reports_to |-> None, from_next_birthday |-> None, to_next_birthday |-> None,
     client |-> None, return_as_count |-> None, count_sort_desc |-> None]

\* the fields of the Employees entity (src/configuration/database.py:19-33)
EmployeeColumns ==
    {c_id, c_updated_at, c_full_name, c_nationality, c_department, c_is_manager,
     c_location, c_linkedin, c_twitter_x, c_facebook, c_email, c_is_active,
     c_reports_to, c_birth_date, c_client}

\* the names hasattr(Employees, name) is true for: the fields, the foreign
\* key's id accessor (used at employee_profile.py:143), the back-references
\* declared at database.py:31 and database.py:41, and what the class inherits
\* from Model (database.py:12), of which the exception class DoesNotExist is
\* the one whose name is not lower-case
EmployeesAttrs ==
    EmployeeColumns \cup {c_reports_to_id, c_direct_reports, c_time_offs, c_DoesNotExist}

\* select_key_renamed of line 327
select_key_renamed(c) ==
    IF c = c_country THEN c_location ELSE IF c = c_twitter THEN c_twitter_x ELSE c

\* ", ".join(xs)
RECURSIVE Join(_)
Join(xs) ==
    IF Len(xs) = 0 THEN <<>>
    ELSE IF Len(xs) = 1 THEN xs[1]
    ELSE xs[1] \o <<",", " ">> \o Join(Tail(xs))

\* lines 346-349: the entries that are not blank, stripped and lower-cased;
\* an empty list becomes None
RECURSIVE CleanValues(_)
CleanValues(xs) ==
    IF Len(xs) = 0 THEN <<>>
    ELSE (IF Len(Strip(xs[1])) > 0 THEN <<Lower(Strip(xs[1]))>> ELSE <<>>)
         \o CleanValues(Tail(xs))

CleanList(o) ==
    IF IsNone(o) THEN o
    ELSE IF Len(CleanValues(Val(o))) > 0 THEN Some(CleanValues(Val(o))) ELSE None

\* line 353: a string field stripped and lower-cased; an empty one becomes None
CleanText(o) ==
    IF IsNone(o) THEN o
    ELSE IF Len(Strip(Val(o))) > 0 THEN Some(Lower(Strip(Val(o)))) ELSE None

\* params_preprocess of employee_profile.py (lines 323-355): the intent it
\* leaves behind, and the ValueError it raises if any
params_preprocess_employee(p) ==
    LET renamed ==
            IF Truthy(p.select_columns)
            THEN Some([i \in 1..Len(Val(p.select_columns)) |->
                           select_key_renamed(Val(p.select_columns)[i])])
            ELSE p.select_columns
        invalid_columns ==
            IF Truthy(renamed) THEN FilterNotIn(Val(renamed), EmployeesAttrs) ELSE <<>>
        p1 == [p EXCEPT !.select_columns = renamed]
    IN  IF Len(invalid_columns) > 0
        THEN [raised |-> TRUE, params |-> p1,
              msg |-> Msg("Invalid column(s): {invalid_columns_str}",
                          <<Join(invalid_columns)>>, <<>>, <<>>)]
        ELSE [raised |-> FALSE,
              params |-> [p1 EXCEPT !.query_type = CleanText(@),
                                    !.select_columns = CleanList(@),
                                    !.name = CleanText(@),
                                    !.department = CleanList(@),
                                    !.location = CleanList(@),
                                    !.reports_to = CleanText(@),
                                    !.from_next_birthday = CleanText(@),
                                    !.to_next_birthday = CleanText(@),
                                    !.client = CleanList(@)],
              msg |-> NoMsg]

\* getattr(Employees, column) of line 94
EmployeesField(c) ==
    CASE c = c_id -> "Employees.id"
      [] c = c_updated_at -> "Employees.updated_at"
      [] c = c_full_name -> "Employees.full_name"
      [] c = c_nationality -> "Employees.nationality"
      [] c = c_department -> "Employees.department"
      [] c = c_is_manager -> "Employees.is_manager"
      [] c = c_location -> "Employees.location"
      [] c = c_linkedin -> "Employees.linkedin"
      [] c = c_twitter_x -> "Employees.twitter_x"
      [] c = c_facebook -> "Employees.facebook"
      [] c = c_email -> "Employees.email"
      [] c = c_is_active -> "Employees.is_active"
      [] c = c_reports_to -> "Employees.reports_to"
      [] c = c_birth_date -> "Employees.birth_date"
      [] c = c_client -> "Employees.client"
      [] c = c_reports_to_id -> "Employees.reports_to_id"
      [] c = c_direct_reports -> "Employees.direct_reports"
      [] c = c_time_offs -> "Employees.time_offs"

\* lines 93-97
RECURSIVE EmployeeFields(_)
EmployeeFields(cols) ==
    IF Len(cols) = 0 THEN <<>>
    ELSE (IF cols[1] \in EmployeesAttrs THEN <<EmployeesField(cols[1])>> ELSE <<>>)
         \o EmployeeFields(Tail(cols))

\* build_employee_base_query (lines 87-113): the query and the fields
build_employee_base_query(p) ==
    LET fs == IF Truthy(p.select_columns)
              THEN EmployeeFields(Val(p.select_columns)) ELSE <<>>
        select == IF TruthyBool(p.return_as_count)
                  THEN fs \o <<"COUNT(DISTINCT Employees.id) AS total">>
                  ELSE IF Len(fs) > 0 THEN fs ELSE <<"Employees.*">>
    IN  [query |-> Where([EmptyQuery EXCEPT !.select = select],
                         "is_active", IsTrue("is_active")),
         fields |-> fs]

\* lines 118-119 and 148-149: one clause per piece of split(" "), blank or not
RECURSIVE TokenClauses(_, _, _, _)
TokenClauses(q, parts, stage, column) ==
    IF Len(parts) = 0 THEN q
    ELSE TokenClauses(Where(q, stage, ContainsExpr(Col(column), parts[1])),
                      Tail(parts), stage, column)

\* apply_employee_name_filter (lines 116-120)
apply_employee_name_filter(q, p) ==
    StageOk(IF Truthy(p.name)
            THEN TokenClauses(q, Split(Val(p.name), " "), "name", "full_name")
            ELSE q)

\* a faulty variant of apply_employee_manager_filter: the flag is tested for
\* truth, so False filters nothing
apply_employee_manager_filter_Truthy(q, p) ==
    StageOk(IF TruthyBool(p.is_manager)
            THEN Where(q, "manager", Cmp("==", Col("is_manager"), BoolLit(Val(p.is_manager))))
            ELSE q)

\* apply_employee_manager_filter (lines 123-126)
apply_employee_manager_filter(q, p) ==
    StageOk(IF ~IsNone(p.is_manager)
            THEN Where(q, "manager", Cmp("==", Col("is_manager"), BoolLit(Val(p.is_manager))))
            ELSE q)

\* [x.lower() for x in xs if x]
RECURSIVE LowerList(_)
LowerList(xs) ==
    IF Len(xs) = 0 THEN <<>>
    ELSE (IF Len(xs[1]) > 0 THEN <<Lower(xs[1])>> ELSE <<>>) \o LowerList(Tail(xs))

\* lines 130-133, 282-285 and 297-300: LOWER(column) IN (the lower-cased list)
ListFilter(q, o, stage, column) ==
    StageOk(IF Truthy(o) /\ Len(LowerList(Val(o))) > 0
            THEN Where(q, stage, InExpr(LowerOf(column), LowerList(Val(o))))
            ELSE q)

\* apply_employee_location_filter (lines 129-134)
apply_employee_location_filter(q, p) == ListFilter(q, p.location, "location", "location")

\* a faulty variant of apply_employee_reports_to_filter: the join starts from
\* a new select, and the clauses added before it are lost
apply_employee_reports_to_filter_FromNewSelect(q, p) ==
    StageOk(IF Truthy(p.reports_to)
            THEN TokenClauses(
                     [q EXCEPT !.where = <<>>,
                               !.join =
                          Append(@, "Employees AS manager ON Employees.reports_to_id = manager.id")],
                     Split(Val(p.reports_to), " "), "reports_to", "manager_full_name")
            ELSE q)

\* apply_employee_reports_to_filter (lines 137-150)
apply_employee_reports_to_filter(q, p) ==
    StageOk(IF Truthy(p.reports_to)
            THEN TokenClauses(
                     [q EXCEPT !.join =
                          Append(@, "Employees AS manager ON Employees.reports_to_id = manager.id")],
                     Split(Val(p.reports_to), " "), "reports_to", "manager_full_name")
            ELSE q)

\* a faulty variant of MonthDay: the month is counted from the year 0 of the bound
MonthDay_WithYear(date_str) ==
    [month |-> 12 * ToInt(Split(date_str, "-")[1]) + ToInt(Split(date_str, "-")[2]),
     day |-> DayInt(Split(date_str, "-")[3])]

\* lines 207-208 and 221-222: _, month, day = map(int, date_str.split("-"))
MonthDay(date_str) ==
    [month |-> ToInt(Split(date_str, "-")[2]), day |-> DayInt(Split(date_str, "-")[3])]

\* lines 197-198
birth_month == MonthOf("birth_date")
birth_day == DayOf("birth_date")

\* lines 233-235
crossing_year(f, t) == f.month > t.month \/ (f.month = t.month /\ f.day > t.day)

\* a faulty variant of CrossingExpr: the day of the lower bound is left out
CrossingExpr_FromDayExcluded(f, t) ==
    Or(Or(Or(Cmp(">", birth_month, IntLit(f.month)),
             Cmp("<", birth_month, IntLit(t.month))),
          And(Cmp("==", birth_month, IntLit(f.month)), Cmp(">", birth_day, IntLit(f.day)))),
       And(Cmp("==", birth_month, IntLit(t.month)), Cmp("<=", birth_day, IntLit(t.day))))

\* lines 245-250: the clause of a span that crosses the end of the year
CrossingExpr(f, t) ==
    Or(Or(Or(Cmp(">", birth_month, IntLit(f.month)),
             Cmp("<", birth_month, IntLit(t.month))),
          And(Cmp("==", birth_month, IntLit(f.month)), Cmp(">=", birth_day, IntLit(f.day)))),
       And(Cmp("==", birth_month, IntLit(t.month)), Cmp("<=", birth_day, IntLit(t.day))))

\* lines 256-257
FromExpr(f) ==
    Or(Cmp(">", birth_month, IntLit(f.month)),
       And(Cmp("==", birth_month, IntLit(f.month)), Cmp(">=", birth_day, IntLit(f.day))))

\* lines 262-263
ToExpr(t) ==
    Or(Cmp("<", birth_month, IntLit(t.month)),
       And(Cmp("==", birth_month, IntLit(t.month)), Cmp("<=", birth_day, IntLit(t.day))))

\* lines 266-268: a ValueError leaves the filter as "Birthday filter error: ..."
BirthdayError(m) == StageErr(Msg("Birthday filter error: {e}", <<>>, <<>>, <<m>>), <<>>)

\* lines 230-264: the clauses for the bounds that were given
BirthdayClauses(q, hasFrom, f, hasTo, t) ==
    IF hasFrom /\ hasTo /\ crossing_year(f, t)
    THEN Where(q, "birthday", CrossingExpr(f, t))
    ELSE LET q1 == IF hasFrom THEN Where(q, "birthday", FromExpr(f)) ELSE q
         IN  IF hasTo THEN Where(q1, "birthday", ToExpr(t)) ELSE q1

\* apply_employee_birthday_filter (lines 178-273); the int() of lines 208 and
\* 222 cannot fail on a text strptime accepted
apply_employee_birthday_filter(q, p) ==
    LET hasFrom == Truthy(p.from_next_birthday)
        hasTo == Truthy(p.to_next_birthday)
        from == validate_date_format(Val(p.from_next_birthday))
        to == validate_date_format(Val(p.to_next_birthday))
    IN  IF ~(hasFrom \/ hasTo) THEN StageOk(q)
        ELSE IF hasFrom /\ from.kind = "err"
        THEN BirthdayError(Msg("From birthday: {from_error}", <<>>, <<>>, <<from.msg>>))
        ELSE IF hasTo /\ to.kind = "err"
        THEN BirthdayError(Msg("To birthday: {to_error}", <<>>, <<>>, <<to.msg>>))
        ELSE StageOk(BirthdayClauses(
                 q,
                 hasFrom, IF hasFrom THEN MonthDay(from.value) ELSE [month |-> 0, day |-> 0],
                 hasTo, IF hasTo THEN MonthDay(to.value) ELSE [month |-> 0, day |-> 0]))

\* apply_employee_client_filter (lines 289-301)
apply_employee_client_filter(q, p) == ListFilter(q, p.client, "client", "client")

\* apply_employee_department_filter (lines 276-286)
apply_employee_department_filter(q, p) ==
    ListFilter(q, p.department, "department", "department")

\* format_employee_results (lines 304-320): str(query) of the finished query
format_employee_results(q, fs, p) ==
    IF TruthyBool(p.return_as_count) /\ Len(fs) > 0
    THEN [q EXCEPT !.group_by = fs,
                   !.order_by = IF TruthyBool(p.count_sort_desc)
                                THEN <<"COUNT(DISTINCT Employees.id) DESC">>
                                ELSE <<"COUNT(DISTINCT Employees.id)">>]
    ELSE q

---------------------------------------------------------------------------
(* get_employees (lines 359-394), one action per step *)

\* the values a caller gives each field
EmployeeColumnValues ==
    {Some(<<c_full_name>>), Some(<<c_department, c_country>>), Some(<<c_ssn>>),
     Some(<<c_full_name, c_ssn>>), Some(<<c_time_offs>>), Some(<<c_DoesNotExist>>),
     Some(<<>>)}
EmployeeNameValues ==
    {Some(s_Ana), Some(s_ana_maria), Some(s_Ana_tab_Maria), Some(<<" ">>)}
EmployeeListValues(v) == {Some(<<v>>), Some(<<v, <<>>, s_Sales>>), Some(<<<<" ">>>>)}
ReportsToValues == {Some(s_Rui_Silva), Some(s_Ana_tab_Maria), Some(<<>>)}
FromBirthdayValues ==
    {Some(IsoText(<<2025, 11, 15>>)), Some(IsoText(<<2025, 2, 15>>)),
     Some(IsoText(<<2025, 6, 20>>)), Some(IsoText(<<2025, 6, 5>>)),
     Some(s_unpadded_june), Some(s_blank_day), Some(s_Nov_15),
     Some(IsoText(<<1800, 11, 15>>)),
     Some(IsoText(<<2025, 2, 30>>))}
ToBirthdayValues ==
    {Some(IsoText(<<2026, 2, 15>>)), Some(IsoText(<<2025, 11, 15>>)),
     Some(IsoText(<<2025, 6, 5>>)), Some(IsoText(<<2025, 6, 20>>)),
     Some(IsoText(<<2025, 12, 25>>)), Some(s_slashes), Some(<<" ">>)}

EmployeeOptional ==
    {"select_columns", "name", "department", "is_manager", "location", "reports_to",
     "from_next_birthday", "to_next_birthday", "client", "return_as_count",
     "count_sort_desc"}

\* EmployeeFilterParams(**given): the intents a caller can build
EmployeeFilterParams ==
    UNION {
      {[query_type |-> Some(s_employee), select_columns |-> sc, name |-> na,
        department |-> de, is_manager |-> im, location |-> lo, reports_to |-> rt,
        from_next_birthday |-> fb, to_next_birthday |-> tb, client |-> cl,
        return_as_count |-> rac, count_sort_desc |-> csd] :
          sc \in Pick(S, "select_columns", EmployeeColumnValues, None),
          na \in Pick(S, "name", EmployeeNameValues, None),
          de \in Pick(S, "department", EmployeeListValues(s_Engineering), None),
          im \in Pick(S, "is_manager", FlagValues, None),
          lo \in Pick(S, "location", EmployeeListValues(s_Lisbon), None),
          rt \in Pick(S, "reports_to", ReportsToValues, None),
          fb \in Pick(S, "from_next_birthday", FromBirthdayValues, None),
          tb \in Pick(S, "to_next_birthday", ToBirthdayValues, None),
          cl \in Pick(S, "client", EmployeeListValues(s_Apollo), None),
          rac \in Pick(S, "return_as_count", FlagValues, None),
          csd \in Pick(S, "count_sort_desc", FlagValues, None)}
      : S \in GivenSets(EmployeeOptional)}

InitEmployees ==
    /\ tool = "get_employees"
    /\ pc = "preprocess"
    /\ today = <<2025, 6, 15>>
    /\ params \in EmployeeFilterParams
    /\ intent0 = params
    /\ query = EmptyQuery
    /\ fields = <<>>
    /\ result = NoResult
    /\ trace = <<>>

\* a faulty variant of RetrievingError: the handler raises the exception again
RetrievingError_Reraise(m) == [raise |-> m]

\* lines 392-394: an exception outside the filter loop
RetrievingError(m) ==
    Fail(Msg("Error retrieving employee data: {e}", <<>>, <<>>, <<m>>), <<>>)

\* lines 384-387: an exception inside the filter loop
FilterError(filter_name, m) ==
    Fail(Msg("Error in {filter_name} filter: {e}", <<filter_name>>, <<>>, <<m>>), <<>>)

\* line 365
EMP_Preprocess ==
    /\ tool = "get_employees" /\ pc = "preprocess"
    /\ LET r == params_preprocess_employee(params)
       IN  /\ params' = r.params
           /\ IF r.raised
              THEN pc' = "done" /\ result' = RetrievingError(r.msg)
              ELSE pc' = "base" /\ UNCHANGED result
    /\ trace' = Append(trace, "params_preprocess")
    /\ UNCHANGED <<tool, today, intent0, query, fields>>

\* line 368
EMP_BuildBase ==
    /\ tool = "get_employees" /\ pc = "base"
    /\ query' = build_employee_base_query(params).query
    /\ fields' = build_employee_base_query(params).fields
    /\ pc' = "name"
    /\ trace' = Append(trace, "build_employee_base_query")
    /\ UNCHANGED <<tool, today, intent0, params, result>>

\* lines 381-387: one turn of the loop over the filters
EMP_Filter(at, name, filter_name, r, next) ==
    /\ tool = "get_employees" /\ pc = at
    /\ IF r.ok
       THEN query' = r.query /\ pc' = next /\ UNCHANGED result
       ELSE result' = FilterError(filter_name, r.msg) /\ pc' = "done" /\ UNCHANGED query
    /\ trace' = Append(trace, name)
    /\ UNCHANGED <<tool, today, intent0, params, fields>>

EMP_NameFilter ==
    EMP_Filter("name", "apply_employee_name_filter", fn_name_filter,
               apply_employee_name_filter(query, params), "manager")

EMP_ManagerFilter ==
    EMP_Filter("manager", "apply_employee_manager_filter", fn_manager_filter,
               apply_employee_manager_filter(query, params), "location")

EMP_LocationFilter ==
    EMP_Filter("location", "apply_employee_location_filter", fn_location_filter,
               apply_employee_location_filter(query, params), "reports_to")

EMP_ReportsToFilter ==
    EMP_Filter("reports_to", "apply_employee_reports_to_filter", fn_reports_to_filter,
               apply_employee_reports_to_filter(query, params), "birthday")

EMP_BirthdayFilter ==
    EMP_Filter("birthday", "apply_employee_birthday_filter", fn_birthday_filter,
               apply_employee_birthday_filter(query, params), "client")

EMP_ClientFilter ==
    EMP_Filter("client", "apply_employee_client_filter", fn_client_filter,
               apply_employee_client_filter(query, params), "department")

EMP_DepartmentFilter ==
    EMP_Filter("department", "apply_employee_department_filter", fn_department_filter,
               apply_employee_department_filter(query, params), "format")

\* line 390
EMP_Format ==
    /\ tool = "get_employees" /\ pc = "format"
    /\ result' = Plan(format_employee_results(query, fields, params))
    /\ pc' = "done"
    /\ trace' = Append(trace, "format_employee_results")
    /\ UNCHANGED <<tool, today, intent0, params, query, fields>>

NextEmployees ==
    \/ EMP_Preprocess
    \/ EMP_BuildBase
    \/ EMP_NameFilter
    \/ EMP_ManagerFilter
    \/ EMP_LocationFilter
    \/ EMP_ReportsToFilter
    \/ EMP_BirthdayFilter
    \/ EMP_ClientFilter
    \/ EMP_DepartmentFilter
    \/ EMP_Format

SpecEmployees == InitEmployees /\ [][NextEmployees]_vars

\* intents that set every filter field at once
FullIntents ==
    {[query_type |-> Some(s_employee), select_columns |-> Some(<<c_department>>),
      name |-> na, department |-> Some(<<s_Engineering>>), is_manager |-> Some(FALSE),
      location |-> Some(<<s_Lisbon>>), reports_to |-> Some(s_Rui_Silva),
      from_next_birthday |-> fb, to_next_birthday |-> tb, client |-> Some(<<s_Apollo>>),
      return_as_count |-> rac, count_sort_desc |-> None] :
        na \in {Some(s_Ana), Some(s_ana_maria)},
        fb \in {Some(IsoText(<<2025, 11, 15>>)), Some(s_Nov_15)},
        tb \in {Some(IsoText(<<2026, 2, 15>>)), None},
        rac \in {None, Some(TRUE)}}

InitFullIntents ==
    /\ tool = "get_employees"
    /\ pc = "preprocess"
    /\ today = <<2025, 6, 15>>
    /\ params \in FullIntents
    /\ intent0 = params
    /\ query = EmptyQuery
    /\ fields = <<>>
    /\ result = NoResult
    /\ trace = <<>>

\* get_employees on the intents that set every filter field
SpecFullIntents == InitFullIntents /\ [][NextEmployees]_vars

---------------------------------------------------------------------------
(* The entry points as functions of the intent and the day of the call *)

\* get_time_off (lines 516-595): what it returns, and the caller's object after it
get_time_off(p0, td) ==
    LET p == params_preprocess_time_off(p0)
        v == validate_time_off_params(p)
        b == build_time_off_base_query(p)
        d == apply_time_off_date_filters(b.query, p, td)
        po == apply_time_off_policy_filter(d.query, p)
        na == apply_time_off_name_filter(po.query, p)
        de == apply_time_off_department_filter(na.query, p)
    IN  [params |-> p,
         result |-> IF ~v.ok THEN Fail(v.msg, <<>>)
                    ELSE IF ~d.ok THEN Fail(d.msg, d.plan)
                    ELSE IF ~po.ok THEN Fail(po.msg, po.plan)
                    ELSE IF ~na.ok THEN Fail(na.msg, na.plan)
                    ELSE IF ~de.ok THEN Fail(de.msg, de.plan)
                    ELSE Plan(format_time_off_results(de.query, p, b.fields))]

\* get_employees (lines 359-394): what it returns, and the caller's object after it
get_employees(p0) ==
    LET r == params_preprocess_employee(p0)
        p == r.params
        b == build_employee_base_query(p)
        na == apply_employee_name_filter(b.query, p)
        ma == apply_employee_manager_filter(na.query, p)
        lo == apply_employee_location_filter(ma.query, p)
        rt == apply_employee_reports_to_filter(lo.query, p)
        bi == apply_employee_birthday_filter(rt.query, p)
        cl == apply_employee_client_filter(bi.query, p)
        de == apply_employee_department_filter(cl.query, p)
    IN  [params |-> p,
         result |-> IF r.raised THEN RetrievingError(r.msg)
                    ELSE IF ~bi.ok THEN FilterError(fn_birthday_filter, bi.msg)
                    ELSE Plan(format_employee_results(de.query, b.fields, p))]

---------------------------------------------------------------------------
(* Concurrent invocations: process_questions_parallel
   (src/process_questions.py:112-148) submits process_single_question to a
   thread pool; each thread gets its own intent object from its own agent and
   hands it to get_employees or get_time_off (src/agent.py:111-114).  Under
   this specification tool, pc, intent0, params, query, fields, result and
   trace hold one value per thread. *)

\* the threads of the pool that are modelled (max_workers = 10 in the source)
NumThreads == 2
Threads == 1..NumThreads

\* the local variables of one invocation
StartFrame(tl, p) ==
    [tool |-> tl, pc |-> "preprocess", params |-> p, query |-> EmptyQuery,
     fields |-> <<>>, result |-> NoResult]

\* employee_time_off.py lines 567-582: one turn of the loop over the filters
TimeOffTurn(f, r, next) ==
    IF r.ok
    THEN [f EXCEPT !.query = r.query, !.pc = next]
    ELSE [f EXCEPT !.result = Fail(r.msg, r.plan), !.pc = "done"]

\* get_time_off (lines 516-595), one stage at a time
get_time_off_step(f, td) ==
    CASE f.pc = "preprocess" ->
             [f EXCEPT !.params = params_preprocess_time_off(@), !.pc = "validate"]
      [] f.pc = "validate" ->
             LET v == validate_time_off_params(f.params)
             IN  IF v.ok THEN [f EXCEPT !.pc = "base"]
                 ELSE [f EXCEPT !.result = Fail(v.msg, <<>>), !.pc = "done"]
      [] f.pc = "base" ->
             [f EXCEPT !.query = build_time_off_base_query(f.params).query,
                       !.fields = build_time_off_base_query(f.params).fields,
                       !.pc = "date"]
      [] f.pc = "date" ->
             TimeOffTurn(f, apply_time_off_date_filters(f.query, f.params, td), "policy")
      [] f.pc = "policy" ->
             TimeOffTurn(f, apply_time_off_policy_filter(f.query, f.params), "name")
      [] f.pc = "name" ->
             TimeOffTurn(f, apply_time_off_name_filter(f.query, f.params), "department")
      [] f.pc = "department" ->
             TimeOffTurn(f, apply_time_off_department_filter(f.query, f.params), "format")
      [] f.pc = "format" ->
             [f EXCEPT !.result = Plan(format_time_off_results(f.query, f.params, f.fields)),
                       !.pc = "done"]

\* employee_profile.py lines 381-387: one turn of the loop over the filters
EmployeeTurn(f, r, filter_name, next) ==
    IF r.ok
    THEN [f EXCEPT !.query = r.query, !.pc = next]
    ELSE [f EXCEPT !.result = FilterError(filter_name, r.msg), !.pc = "done"]

\* get_employees (lines 359-394), one stage at a time
get_employees_step(f) ==
    CASE f.pc = "preprocess" ->
             LET r == params_preprocess_employee(f.params)
             IN  IF r.raised
                 THEN [f EXCEPT !.params = r.params, !.result = RetrievingError(r.msg),
                                !.pc = "done"]
                 ELSE [f EXCEPT !.params = r.params, !.pc = "base"]
      [] f.pc = "base" ->
             [f EXCEPT !.query = build_employee_base_query(f.params).query,
                       !.fields = build_employee_base_query(f.params).fields,
                       !.pc = "name"]
      [] f.pc = "name" ->
             EmployeeTurn(f, apply_employee_name_filter(f.query, f.params),
                          fn_name_filter, "manager")
      [] f.pc = "manager" ->
             EmployeeTurn(f, apply_employee_manager_filter(f.query, f.params),
                          fn_manager_filter, "location")
      [] f.pc = "location" ->
             EmployeeTurn(f, apply_employee_location_filter(f.query, f.params),
                          fn_location_filter, "reports_to")
      [] f.pc = "reports_to" ->
             EmployeeTurn(f, apply_employee_reports_to_filter(f.query, f.params),
                          fn_reports_to_filter, "birthday")
      [] f.pc = "birthday" ->
             EmployeeTurn(f, apply_employee_birthday_filter(f.query, f.params),
                          fn_birthday_filter, "client")
      [] f.pc = "client" ->
             EmployeeTurn(f, apply_employee_client_filter(f.query, f.params),
                          fn_client_filter, "department")
      [] f.pc = "department" ->
             EmployeeTurn(f, apply_employee_department_filter(f.query, f.params),
                          fn_department_filter, "format")
      [] f.pc = "format" ->
             [f EXCEPT !.result = Plan(format_employee_results(f.query, f.fields, f.params)),
                       !.pc = "done"]

\* a faulty variant of QuerySlot: the plan under construction is kept in one
\* place shared by every invocation
QuerySlot_Global(t) == 1

\* where thread t keeps the plan it is building: query is a local variable of
\* the invocation (employee_profile.py:368, employee_time_off.py:551), and
\* where() and join() return a new query
QuerySlot(t) == t

\* the local variables of thread t's invocation
FrameOf(t) ==
    [tool |-> tool[t], pc |-> pc[t], params |-> params[t],
     query |-> query[QuerySlot(t)], fields |-> fields[t], result |-> result[t]]

\* the intents the threads are given
ThreadIntents ==
    {[EmployeeDefaults EXCEPT !.name = Some(s_Ana), !.is_manager = Some(FALSE)],
     [EmployeeDefaults EXCEPT !.from_next_birthday = Some(s_Nov_15)],
     [EmployeeDefaults EXCEPT !.select_columns = Some(<<c_department>>),
                              !.return_as_count = Some(TRUE)],
     [TimeOffDefaults EXCEPT !.policy_type = Some(s_sick), !.return_as_count = Some(TRUE)],
     [TimeOffDefaults EXCEPT !.duration_min = Some(3), !.duration_max = Some(1)],
     [TimeOffDefaults EXCEPT !.type = Some(s_past), !.name = Some(s_Ana)]}

\* src/agent.py lines 111-114: the entry point an intent is handed to
Dispatch(p) ==
    IF p.query_type = Some(s_employee) THEN "get_employees" ELSE "get_time_off"

InitThreads ==
    /\ today = <<2025, 6, 15>>
    /\ intent0 \in [Threads -> ThreadIntents]
    /\ params = intent0
    /\ tool = [t \in Threads |-> Dispatch(intent0[t])]
    /\ pc = [t \in Threads |-> "preprocess"]
    /\ query = [t \in Threads |-> EmptyQuery]
    /\ fields = [t \in Threads |-> <<>>]
    /\ result = [t \in Threads |-> NoResult]
    /\ trace = [t \in Threads |-> <<>>]

\* thread t runs the next stage of its invocation
THR_Advance(t, g) ==
    /\ pc' = [pc EXCEPT ![t] = g.pc]
    /\ params' = [params EXCEPT ![t] = g.params]
    /\ query' = [query EXCEPT ![QuerySlot(t)] = g.query]
    /\ fields' = [fields EXCEPT ![t] = g.fields]
    /\ result' = [result EXCEPT ![t] = g.result]
    /\ trace' = [trace EXCEPT ![t] = Append(@, pc[t])]
    /\ UNCHANGED <<tool, today, intent0>>

THR_TimeOffStep(t) ==
    /\ tool[t] = "get_time_off" /\ pc[t] # "done"
    /\ THR_Advance(t, get_time_off_step(FrameOf(t), today))

THR_EmployeesStep(t) ==
    /\ tool[t] = "get_employees" /\ pc[t] # "done"
    /\ THR_Advance(t, get_employees_step(FrameOf(t)))

NextThreads ==
    \E t \in Threads :
        \/ THR_TimeOffStep(t)
        \/ THR_EmployeesStep(t)

SpecThreads == InitThreads /\ [][NextThreads]_vars

---------------------------------------------------------------------------
(* Stored records the plans are evaluated on *)

RowDates ==
    {<<2025, 5, 1>>, <<2025, 6, 1>>, <<2025, 6, 5>>, <<2025, 6, 10>>, <<2025, 6, 20>>,
     <<2025, 7, 1>>, <<2025, 8, 1>>}

\* time-off records: end_date >= start_date
TimeOffRows ==
    {r \in [start_date : RowDates, end_date : RowDates] : DateLE(r.start_date, r.end_date)}

\* the values of date('now') the window clauses are evaluated at
WindowNows == {<<2025, 1, 1>>, <<2025, 6, 1>>, <<2025, 6, 7>>, <<2025, 6, 10>>, <<2025, 9, 1>>}

---------------------------------------------------------------------------
(* Claims about the date functions, checked under SpecDates *)

\* what the specification says a month offset yields: the day clamped to the
\* last day of the target month
MonthsClamped(td, k) ==
    LET m0 == td[2] + k
        y == td[1] + ((m0 - 1) \div 12)
        m == ((m0 - 1) % 12) + 1
    IN  <<y, m, Min(td[3], DaysInMonth(y, m))>>

ClaimedOffset(td, unit, k) ==
    IF unit = s_day THEN AddDays(td, k)
    ELSE IF unit = s_week THEN AddDays(td, 7 * k)
    ELSE IF unit = s_month THEN MonthsClamped(td, k)
    ELSE MonthsClamped(td, 12 * k)

ClaimedLiteral(phrase, td) ==
    CASE phrase = s_today -> td
      [] phrase = s_tomorrow -> ClaimedOffset(td, s_day, 1)
      [] phrase = s_yesterday -> ClaimedOffset(td, s_day, -1)
      [] phrase = s_next_week -> ClaimedOffset(td, s_week, 1)
      [] phrase = s_last_week -> ClaimedOffset(td, s_week, -1)
      [] phrase = s_next_month -> ClaimedOffset(td, s_month, 1)
      [] phrase = s_last_month -> ClaimedOffset(td, s_month, -1)
      [] phrase = s_next_year -> ClaimedOffset(td, s_year, 1)
      [] phrase = s_last_year -> ClaimedOffset(td, s_year, -1)

\* C6: parse_relative_date recognizes each of the nine literal phrases and
\* returns the corresponding date with no error, month arithmetic clamping the
\* day ("next month" on 2025-01-31 is 2025-02-28).
\* The code returns "Invalid date format. Only YYYY-MM-DD is supported." for
\* every one of them: TLC finds this violated.
C6_LiteralPhrasesResolve ==
    (Resolved /\ intent0 \in LiteralPhrases) =>
        /\ result.kind = "ok"
        /\ result.date = ClaimedLiteral(intent0, today)
        /\ (intent0 = s_next_month /\ today = <<2025, 1, 31>>) => result.date = <<2025, 2, 28>>

\* C7: parse_relative_date resolves "in N <unit>" to N units after today and
\* "N <unit> ago" to N units before it, for the four units singular or plural
\* and every N >= 0, the result being a valid calendar date returned with no
\* error. The code rejects every such text before its patterns are tried: TLC
\* finds this violated.
C7_OffsetPatternsResolve ==
    Resolved =>
        \A n \in 0..MaxAmount, u \in 1..8 :
            /\ intent0 = InPhrase(n, UnitAlternatives[u]) =>
                  /\ result.kind = "ok"
                  /\ result.date =
                         ClaimedOffset(today, RStripChar(UnitAlternatives[u], "s"), n)
                  /\ ValidDate(result.date[1], result.date[2], result.date[3])
            /\ intent0 = AgoPhrase(n, UnitAlternatives[u]) =>
                  /\ result.kind = "ok"
                  /\ result.date =
                         ClaimedOffset(today, RStripChar(UnitAlternatives[u], "s"), -n)
                  /\ ValidDate(result.date[1], result.date[2], result.date[3])

InYearRange(dt) == dt[1] >= 1900 /\ dt[1] <= 2100

\* validate_date_format on the text of a calendar date: the text comes back
\* unchanged when the year is in 1900..2100, an error otherwise
ValidateHonoursRange ==
    Validated =>
        \A dt \in DatesInRange \cup DatesOutOfRange :
            intent0 = IsoText(dt) =>
                IF InYearRange(dt)
                THEN result.kind = "ok" /\ result.value = intent0
                ELSE result.kind = "err" /\ result.value = <<>>

\* C8: for every valid YYYY-MM-DD date d with the year in [1900, 2100] date
\* resolution returns d with no error, and every such date with the year
\* outside [1900, 2100] is rejected with an error, by parse_relative_date as
\* well as by validate_date_format.
\* parse_relative_date has no year check: TLC finds this violated.
C8_YearRangeBothResolvers ==
    /\ ValidateHonoursRange
    /\ Resolved =>
          \A dt \in DatesInRange \cup DatesOutOfRange :
              intent0 = IsoText(dt) =>
                  IF InYearRange(dt)
                  THEN result.kind = "ok" /\ result.date = dt
                  ELSE result.kind = "err"

\* C9: for every string that is neither a valid YYYY-MM-DD date nor a
\* recognized relative form, parse_relative_date returns an error (no date)
\* whose message carries the input string. The code's message for a text not
\* of the shape dddd-dd-dd carries nothing of the input, and on a 29th of
\* February a text of that shape makes it raise: TLC finds this violated.
C9_UnrecognizedCarriesInput ==
    (Resolved /\ intent0 \in OtherTexts) =>
        /\ result.kind = "err"
        /\ result.date = <<>>
        /\ Carries(result.msg, intent0)

\* C29: for every input text and every current date, the 29th of February of
\* a leap year included, parse_relative_date returns (date, None) or
\* (None, error message) and raises nothing. On a 29th of February the table
\* of relative dates cannot be built (date(year + 1, 2, 29)), and a text of
\* the shape dddd-dd-dd that is no calendar date gets that far: TLC finds this
\* violated.
C29_NeverRaises ==
    Resolved =>
        \/ result.kind = "ok" /\ Len(result.date) = 3 /\ result.msg = NoMsg
        \/ result.kind = "err" /\ result.date = <<>> /\ result.msg # NoMsg

---------------------------------------------------------------------------
(* Claims about get_time_off, checked under SpecTimeOff *)

TimeOffDone == tool = "get_time_off" /\ pc = "done"

\* the date stage has run and has returned a query
DateStagePassed ==
    /\ tool = "get_time_off"
    /\ pc \in {"policy", "name", "department", "format", "done"}
    /\ pc = "done" => result.ok

\* the dates the callers' from_date and to_date texts are written from
QueryDates ==
    {<<2025, 5, 1>>, <<2025, 6, 5>>, <<2025, 6, 20>>, <<2025, 7, 1>>, <<2025, 8, 1>>}

\* the optional text o is the date dt written as YYYY-MM-DD (blanks around it aside)
Denotes(o, dt) == ~IsNone(o) /\ Strip(Val(o)) = IsoText(dt)

Within(x, from, to) == Ordinal(from) <= Ordinal(x) /\ Ordinal(x) <= Ordinal(to)

\* the overlap test as the specification words it
ClaimedOverlap(row, from, to) ==
    \/ Within(row.start_date, from, to)
    \/ Within(row.end_date, from, to)
    \/ Ordinal(row.start_date) <= Ordinal(from) /\ Ordinal(row.end_date) >= Ordinal(to)

RangeAccepts(row) ==
    LET cl == StageClauses(query.where, {"range"})
    IN  Len(cl) = 1 /\ Eval(cl[1].expr, row, today)

June1to10 == [start_date |-> <<2025, 6, 1>>, end_date |-> <<2025, 6, 10>>]

\* C2: when from_date and to_date both resolve, the plan holds one range
\* clause, and a record satisfies it exactly when it starts within [from, to],
\* or ends within [from, to], or spans it (start <= from and end >= to); the
\* record 2025-06-01..2025-06-10 satisfies it for 2025-06-05..2025-06-20 and
\* for 2025-05-01..2025-07-01 and not for 2025-07-01..2025-08-01.
C2_RangePredicate ==
    DateStagePassed =>
        \A a \in QueryDates, b \in QueryDates :
            (Denotes(intent0.from_date, a) /\ Denotes(intent0.to_date, b)) =>
                /\ Len(StageClauses(query.where, {"range"})) = 1
                /\ \A row \in TimeOffRows : RangeAccepts(row) <=> ClaimedOverlap(row, a, b)
                /\ (a = <<2025, 6, 5>> /\ b = <<2025, 6, 20>>) => RangeAccepts(June1to10)
                /\ (a = <<2025, 5, 1>> /\ b = <<2025, 7, 1>>) => RangeAccepts(June1to10)
                /\ (a = <<2025, 7, 1>> /\ b = <<2025, 8, 1>>) => ~RangeAccepts(June1to10)

\* C2 witness: a plan was returned for from_date 2025-06-05, to_date 2025-06-20
C2_Witness ==
    /\ TimeOffDone /\ result.ok
    /\ Denotes(intent0.from_date, <<2025, 6, 5>>)
    /\ Denotes(intent0.to_date, <<2025, 6, 20>>)
    /\ RangeAccepts(June1to10)

\* duration_min < 1, or duration_max < 1, or duration_min > duration_max
BadDurations(p) ==
    \/ ~IsNone(p.duration_min) /\ Val(p.duration_min) < 1
    \/ ~IsNone(p.duration_max) /\ Val(p.duration_max) < 1
    \/ /\ ~IsNone(p.duration_min) /\ ~IsNone(p.duration_max)
       /\ Val(p.duration_min) > Val(p.duration_max)

\* the call ended at the validation gate: no query was built, no stage ran
RejectedAtGate ==
    /\ ~result.ok
    /\ result.plan = <<>>
    /\ query = EmptyQuery
    /\ trace = <<"params_preprocess", "validate_time_off_params">>

\* C3: get_time_off rejects every intent with duration_min < 1, or
\* duration_max < 1, or duration_min > duration_max before any query is built:
\* the result is (False, message, "") and neither the base query builder nor a
\* filter stage runs.
C3_BadDurationsRejected ==
    (tool = "get_time_off" /\ BadDurations(intent0)) =>
        /\ pc \in {"preprocess", "validate", "done"}
        /\ pc = "done" =>
              /\ RejectedAtGate
              /\ result.msg.tmpl \in
                    {"duration_min must be at least 1", "duration_max must be at least 1",
                     "duration_min ({}) cannot be greater than duration_max ({})"}

\* C3 witness: the call with duration_min=5, duration_max=3 has ended in a failure
C3_Witness ==
    /\ TimeOffDone
    /\ intent0.duration_min = Some(5) /\ intent0.duration_max = Some(3)
    /\ RejectedAtGate

HasInvalidColumn(p) ==
    /\ ~IsNone(p.select_columns)
    /\ \E i \in 1..Len(Val(p.select_columns)) : Val(p.select_columns)[i] \notin valid_columns

\* C4: get_time_off rejects every intent whose select_columns holds an entry
\* outside the eight valid columns with a validation error, before any query
\* is built. params_preprocess drops such entries before the validation sees
\* them and a plan is compiled: TLC finds this violated.
C4_InvalidColumnsRejected ==
    (tool = "get_time_off" /\ HasInvalidColumn(intent0)) =>
        /\ pc \in {"preprocess", "validate", "done"}
        /\ pc = "done" => RejectedAtGate

\* the window clauses of the plan under construction
WindowClauses == StageClauses(query.where, {"window"})

\* the temporal windows as the specification words them
ClaimedWindow(tag, row, now) ==
    IF tag = s_present
    THEN Ordinal(row.start_date) <= Ordinal(now) /\ Ordinal(row.end_date) >= Ordinal(now)
    ELSE IF tag = s_past THEN Ordinal(row.end_date) < Ordinal(now)
    ELSE Ordinal(row.start_date) > Ordinal(now)

\* C10: every plan get_time_off returns holds exactly one temporal-window
\* clause, chosen by the intent's type tag (present: start_date <= today and
\* end_date >= today; past: end_date < today; future: start_date > today; the
\* tag is present unless the caller sets it), whether or not from_date or
\* to_date are given.
C10_OneWindowByTag ==
    (TimeOffDone /\ result.ok) =>
        /\ Len(WindowClauses) = 1
        /\ StageClauses(result.plan[1].where, {"window"}) = WindowClauses
        /\ \A row \in TimeOffRows, now \in WindowNows :
               Eval(WindowClauses[1].expr, row, now)
                   <=> ClaimedWindow(Val(intent0.type), row, now)

\* C10 witness: a plan was returned for a past window with from_date given
C10_Witness ==
    /\ TimeOffDone /\ result.ok
    /\ intent0.type = Some(s_past)
    /\ ~IsNone(intent0.from_date)
    /\ Len(WindowClauses) = 1

---------------------------------------------------------------------------
(* Claims about get_employees, checked under SpecEmployees *)

EmployeesDone == tool = "get_employees" /\ pc = "done"

\* the birthday stage has run and has returned a query
BirthdayStagePassed ==
    /\ tool = "get_employees"
    /\ pc \in {"client", "department", "format", "done"}
    /\ pc = "done" => result.ok

\* stored employees, by birth date
BirthRows ==
    {[birth_date |-> <<1990, m, d>>] : m \in {1, 2, 6, 11, 12}, d \in {1, 5, 15, 16, 20, 25}}

\* the optional text o is a calendar date written year-month-day
GivenDate(o) == ~IsNone(o) /\ Strptime(Strip(Val(o))).ok

\* the (month, day) of a date, and of the date an optional text is written from
MonthDayOf(dt) == <<dt[2], dt[3]>>
BoundOf(o) == MonthDayOf(Strptime(Strip(Val(o))).date)

\* a <= b, by month and then by day
LexLE(a, b) == a[1] < b[1] \/ (a[1] = b[1] /\ a[2] <= b[2])

\* the birthday match as the specification words it
ClaimedBirthday(rec, from, to) ==
    IF ~LexLE(from, to)
    THEN LexLE(from, rec) \/ LexLE(rec, to)
    ELSE LexLE(from, rec) /\ LexLE(rec, to)

BirthdayAccepts(row) == AllHold(StageClauses(query.where, {"birthday"}), row, today)

Born(m, d) == [birth_date |-> <<1990, m, d>>]

\* C1: when from_next_birthday and to_next_birthday are both given, a record
\* satisfies the birthday clauses of the plan exactly when its (month, day) is
\* >= from or <= to if from > to (by month, then day), and exactly when it is
\* >= from and <= to otherwise; from (11,15) to (2,15) takes in (12,25) and
\* leaves out (6,1).
C1_BirthdayWraparound ==
    (BirthdayStagePassed /\ GivenDate(intent0.from_next_birthday)
                         /\ GivenDate(intent0.to_next_birthday)) =>
        LET from == BoundOf(intent0.from_next_birthday)
            to == BoundOf(intent0.to_next_birthday)
        IN  /\ Len(StageClauses(query.where, {"birthday"})) >= 1
            /\ \A row \in BirthRows :
                   BirthdayAccepts(row) <=>
                       ClaimedBirthday(MonthDayOf(row.birth_date), from, to)
            /\ (from = <<11, 15>> /\ to = <<2, 15>>) =>
                   BirthdayAccepts(Born(12, 25)) /\ ~BirthdayAccepts(Born(6, 1))

\* C1 witness: a plan was returned for birthdays from 2025-11-15 to 2026-02-15
C1_Witness ==
    /\ EmployeesDone /\ result.ok
    /\ intent0.from_next_birthday = Some(IsoText(<<2025, 11, 15>>))
    /\ intent0.to_next_birthday = Some(IsoText(<<2026, 2, 15>>))
    /\ BirthdayAccepts(Born(12, 25))
    /\ ~BirthdayAccepts(Born(6, 1))

\* the message's text has s inside an interpolated string, at any depth
RECURSIVE Mentions(_, _)
Mentions(m, s) ==
    \/ \E i \in 1..Len(m.strs) : Contains(m.strs[i], s)
    \/ \E i \in 1..Len(m.inner) : Mentions(m.inner[i], s)

\* the entries of select_columns that are no field of the employee entity,
\* nor one of the two names the compiler renames to a field
UnknownColumns(p) ==
    IF IsNone(p.select_columns) THEN {}
    ELSE Range(Val(p.select_columns)) \ (EmployeeColumns \cup {c_country, c_twitter})

\* C5: get_employees answers every intent whose select_columns holds an entry
\* that is no field of the employee entity with a failure that names each such
\* entry, and returns no plan. A name that is an attribute of the Employees
\* class without being a field (time_offs) passes the hasattr test of line 335:
\* TLC finds this violated.
C5_UnknownColumnsRejected ==
    (EmployeesDone /\ UnknownColumns(intent0) # {}) =>
        /\ ~result.ok
        /\ result.plan = <<>>
        /\ \A c \in UnknownColumns(intent0) : Mentions(result.msg, c)

---------------------------------------------------------------------------
(* More claims about get_time_off, checked under SpecTimeOff *)

\* the intent with from_date and to_date exchanged
Exchanged(p) == [p EXCEPT !.from_date = p.to_date, !.to_date = p.from_date]

\* C15: when from_date and to_date both resolve and from_date is after
\* to_date, get_time_off returns what it returns for the intent with the two
\* bounds exchanged: unless the intent fails validation, a plan whose one
\* range clause is that of (to_date, from_date).
C15_SwappedBounds ==
    TimeOffDone =>
        \A a \in QueryDates, b \in QueryDates :
            (Denotes(intent0.from_date, a) /\ Denotes(intent0.to_date, b) /\ DateLT(b, a)) =>
                /\ result = get_time_off(Exchanged(intent0), today).result
                /\ validate_time_off_params(params).ok =>
                      /\ result.ok
                      /\ StageClauses(result.plan[1].where, {"range"})
                             = <<Clause("range", RangeExpr(b, a))>>

\* C15 witness: a plan was returned for from_date 2025-07-01, to_date 2025-06-20
C15_Witness ==
    /\ TimeOffDone /\ result.ok
    /\ Denotes(intent0.from_date, <<2025, 7, 1>>)
    /\ Denotes(intent0.to_date, <<2025, 6, 20>>)
    /\ StageClauses(result.plan[1].where, {"range"})
           = <<Clause("range", RangeExpr(<<2025, 6, 20>>, <<2025, 7, 1>>))>>

\* stored records of one to seven days, within a month and across a month's
\* end, in a leap year and in a common year
DurationRows ==
    {[start_date |-> <<2025, 3, 1>>, end_date |-> <<2025, 3, d>>] : d \in 1..7}
    \cup {[start_date |-> <<2025, 2, 27>>, end_date |-> <<2025, 3, d>>] : d \in 1..4}
    \cup {[start_date |-> <<2024, 2, 27>>, end_date |-> <<2024, 3, d>>] : d \in 1..4}
    \cup {[start_date |-> <<2024, 12, 30>>, end_date |-> <<2025, 1, d>>] : d \in 1..3}

\* the days of a record, counted one by one from its first to its last
RECURSIVE DayCount(_, _)
DayCount(start, end) == IF start = end THEN 1 ELSE 1 + DayCount(NextDay(start), end)

DurationAccepts(row) ==
    AllHold(StageClauses(query.where, {"duration_min", "duration_max"}), row, today)

March1to5 == [start_date |-> <<2025, 3, 1>>, end_date |-> <<2025, 3, 5>>]

\* C16: the duration clauses of a plan keep a record exactly when its
\* inclusive day count (end_date - start_date + 1) is >= duration_min, if set,
\* and <= duration_max, if set; the record 2025-03-01..2025-03-05 counts 5
\* days, is kept by duration_min=5 and dropped by duration_min=6.
C16_InclusiveDuration ==
    DateStagePassed =>
        /\ \A row \in DurationRows :
               DurationAccepts(row) <=>
                   /\ IsNone(intent0.duration_min)
                         \/ DayCount(row.start_date, row.end_date) >= Val(intent0.duration_min)
                   /\ IsNone(intent0.duration_max)
                         \/ DayCount(row.start_date, row.end_date) <= Val(intent0.duration_max)
        /\ TermVal(duration_expr, March1to5, today) = 5
        /\ intent0.duration_min = Some(5) => DurationAccepts(March1to5)
        /\ intent0.duration_min = Some(6) => ~DurationAccepts(March1to5)

\* C16 witness: a plan with duration_min=6 was returned, and it drops the
\* record 2025-03-01..2025-03-05
C16_Witness ==
    /\ TimeOffDone /\ result.ok
    /\ intent0.duration_min = Some(6)
    /\ Len(StageClauses(query.where, {"duration_min"})) = 1
    /\ ~DurationAccepts(March1to5)

\* the i-th group-by column of plan q is the given column c
GroupsBy(q, i, c) == c \in valid_columns /\ q.group_by[i] = field_mapping(c)

\* the plan is ordered by the count as count_sort_desc asks
OrderedByCount(q, p) ==
    q.order_by = IF p.count_sort_desc = Some(TRUE)
                 THEN <<"COUNT(DISTINCT TimeOff.id) DESC">>
                 ELSE <<"COUNT(DISTINCT TimeOff.id)">>

\* C22: a plan of get_time_off for an intent with return_as_count counts
\* distinct records, is grouped by policy_type when no projection columns are
\* given and by exactly the given columns otherwise, and is ordered by the
\* count, descending when count_sort_desc is true and ascending otherwise.
\* Given columns that are not valid are dropped (see C4), and the plan is then
\* grouped by fewer columns than given, or by policy_type: TLC finds this
\* violated.
C22_CountGrouping ==
    (TimeOffDone /\ result.ok /\ intent0.return_as_count = Some(TRUE)) =>
        LET q == result.plan[1]
            given == IF Truthy(intent0.select_columns)
                     THEN Val(intent0.select_columns) ELSE <<c_policy_type>>
        IN  /\ Len(q.group_by) = Len(given)
            /\ \A i \in 1..Len(given) : GroupsBy(q, i, given[i])
            /\ q.select = q.group_by \o <<"COUNT(DISTINCT TimeOff.id) AS total">>
            /\ OrderedByCount(q, intent0)

\* the alias table in its fixed order, as the specification lists it
AliasOrder ==
    <<s_vacation, s_sick, s_annual, s_birthday, s_personal, s_bereavement,
      s_parental, s_maternity, s_paternity>>

\* the place in the table of the first alias contained in text, 0 when none is
FirstAlias(text) ==
    IF \E i \in 1..Len(AliasOrder) : Contains(text, AliasOrder[i])
    THEN CHOOSE i \in 1..Len(AliasOrder) :
             /\ Contains(text, AliasOrder[i])
             /\ \A j \in 1..(i - 1) : ~Contains(text, AliasOrder[j])
    ELSE 0

\* the canonical text of an alias
Canonical(i) == AliasOrder[i] \o (IF i = 4 THEN s_sp_day_off ELSE s_sp_leave)

\* the text the policy predicate probes for, as the specification words it:
\* the short form for the first four aliases, the canonical text of the other
\* aliases, the lower-cased text itself when no alias is contained
ClaimedProbe(text) ==
    LET i == FirstAlias(text)
    IN  IF i = 0 THEN text ELSE IF i <= 4 THEN AliasOrder[i] ELSE Canonical(i)

\* C24: in a plan of get_time_off for an intent with a policy_type that is not
\* blank, the policy predicate is one case-insensitive substring probe of the
\* record's policy_type, for the short form when the first alias (in table
\* order) contained in the lower-cased text is vacation, sick, annual or
\* birthday, for the canonical text when it is a later alias, and for the
\* lower-cased text itself when it contains no alias.
C24_PolicyProbe ==
    (TimeOffDone /\ result.ok /\ ~IsNone(intent0.policy_type)
                 /\ Len(Strip(Val(intent0.policy_type))) > 0) =>
        StageClauses(result.plan[1].where, {"policy"}) =
            <<Clause("policy",
                     ContainsExpr(LowerOf("policy_type"),
                                  ClaimedProbe(Lower(Strip(Val(intent0.policy_type))))))>>

\* C24 witness: a plan was returned for "Annual Sick", which contains two
\* aliases, and its policy predicate probes for "sick"
C24_Witness ==
    /\ TimeOffDone /\ result.ok
    /\ intent0.policy_type = Some(s_Annual_Sick)
    /\ StageClauses(result.plan[1].where, {"policy"}) =
           <<Clause("policy", ContainsExpr(LowerOf("policy_type"), s_sick))>>

\* the three type tags
WindowTags == {s_present, s_past, s_future}

\* the window clauses lines 303-312 add for the intent p with the tag `tag`
WindowOf(p, tag) == ApplyWindow(EmptyQuery, [p EXCEPT !.type = Some(tag)]).where

\* C27: for every record with start_date <= end_date and every day on which
\* the plan is run, exactly one of the window predicates get_time_off builds
\* for the tags present, past and future holds; the window predicate of the
\* returned plan is the one of its own tag.
C27_WindowsPartition ==
    (TimeOffDone /\ result.ok) =>
        LET window == [tag \in WindowTags |-> WindowOf(params, tag)]
        IN  /\ StageClauses(result.plan[1].where, {"window"}) = window[Val(intent0.type)]
            /\ \A row \in TimeOffRows, now \in WindowNows :
                   Cardinality({tag \in WindowTags : AllHold(window[tag], row, now)}) = 1

\* C27 witness: a plan was returned for the future window, and a record that
\* starts on the day the plan is run is in the present window and not in the
\* future one
C27_Witness ==
    /\ TimeOffDone /\ result.ok
    /\ intent0.type = Some(s_future)
    /\ LET row == [start_date |-> <<2025, 6, 1>>, end_date |-> <<2025, 6, 10>>]
       IN  /\ row \in TimeOffRows /\ <<2025, 6, 1>> \in WindowNows
           /\ ~AllHold(StageClauses(result.plan[1].where, {"window"}), row, <<2025, 6, 1>>)
           /\ AllHold(WindowOf(params, s_present), row, <<2025, 6, 1>>)

\* the interval [start_date, end_date] of a record meets the interval [from, to]
Intersects(row, from, to) ==
    Ordinal(row.start_date) <= Ordinal(to) /\ Ordinal(row.end_date) >= Ordinal(from)

\* C28: when from_date and to_date both resolve, the range predicate of the
\* returned plan holds of a record with start_date <= end_date exactly when
\* start_date <= to and end_date >= from, with from the earlier and to the
\* later of the two dates.
C28_OverlapIsIntersection ==
    (TimeOffDone /\ result.ok) =>
        \A a \in QueryDates, b \in QueryDates :
            (Denotes(intent0.from_date, a) /\ Denotes(intent0.to_date, b)) =>
                LET from == IF DateLT(b, a) THEN b ELSE a
                    to == IF DateLT(b, a) THEN a ELSE b
                    range == StageClauses(result.plan[1].where, {"range"})
                IN  /\ Len(range) = 1
                    /\ \A row \in TimeOffRows :
                           AllHold(range, row, today) <=> Intersects(row, from, to)

\* C28 witness: a plan was returned for 2025-06-20..2025-07-01, and the record
\* 2025-06-10..2025-06-20, which ends on the first day of the range, is kept
C28_Witness ==
    /\ TimeOffDone /\ result.ok
    /\ Denotes(intent0.from_date, <<2025, 6, 20>>)
    /\ Denotes(intent0.to_date, <<2025, 7, 1>>)
    /\ [start_date |-> <<2025, 6, 10>>, end_date |-> <<2025, 6, 20>>] \in TimeOffRows
    /\ AllHold(StageClauses(result.plan[1].where, {"range"}),
               [start_date |-> <<2025, 6, 10>>, end_date |-> <<2025, 6, 20>>], today)

\* the steps of get_time_off in the order of lines 541-590
TimeOffOrder ==
    <<"params_preprocess", "validate_time_off_params", "build_time_off_base_query",
      "apply_time_off_date_filters", "apply_time_off_policy_filter",
      "apply_time_off_name_filter", "apply_time_off_department_filter",
      "format_time_off_results">>

\* the predicates the date stage adds
DateStageClauses(where) ==
    StageClauses(where, {"window", "range", "from_only", "to_only", "duration_min",
                         "duration_max"})

\* the place of a clause's stage in the order the predicates are added
StageRank(stage) ==
    CASE stage = "is_active" -> 0
      [] stage = "window" -> 1
      [] stage \in {"range", "from_only", "to_only"} -> 2
      [] stage \in {"duration_min", "duration_max"} -> 3
      [] stage \in {"policy", "status"} -> 4
      [] stage = "name" -> 5
      [] stage = "department" -> 6

\* C30: get_time_off runs its steps in the order normalize, validate, base
\* query, date filters, policy and status filter, name filter, department
\* filter, formatting, and returns at the first step that fails with that
\* step's failure, no later step having run; a from_date or to_date that does
\* not resolve fails the call before any window, range or duration predicate
\* is added.
C30_FirstFailureStops ==
    tool = "get_time_off" =>
        /\ Len(trace) <= Len(TimeOffOrder)
        /\ trace = SubSeq(TimeOffOrder, 1, Len(trace))
        /\ pc = "done" =>
               LET p == params_preprocess_time_off(intent0)
                   v == validate_time_off_params(p)
                   d == apply_time_off_date_filters(build_time_off_base_query(p).query,
                                                    p, today)
               IN  IF ~v.ok
                   THEN /\ Len(trace) = 2
                        /\ result = Fail(v.msg, <<>>)
                        /\ query = EmptyQuery
                   ELSE IF ~d.ok
                   THEN /\ Len(trace) = 4
                        /\ result = Fail(d.msg, d.plan)
                        /\ result.plan = <<>>
                        /\ DateStageClauses(query.where) = <<>>
                   ELSE /\ Len(trace) = Len(TimeOffOrder)
                        /\ result.ok
                        /\ \A i, j \in 1..Len(result.plan[1].where) :
                               i < j => StageRank(result.plan[1].where[i].stage)
                                            <= StageRank(result.plan[1].where[j].stage)

\* C30 witness: a call with a window tag and a to_date that does not resolve
\* has returned the date stage's failure after four steps, no window predicate
\* added
C30_Witness ==
    /\ TimeOffDone /\ ~result.ok
    /\ Len(trace) = 4
    /\ intent0.type = Some(s_past)
    /\ ~IsNone(intent0.to_date)
    /\ DateStageClauses(query.where) = <<>>

---------------------------------------------------------------------------
(* More claims about get_employees, checked under SpecEmployees *)

\* a stored employee with one time-off record
StoredRow(active, status) ==
    [is_active |-> active, full_name |-> s_ana_maria, manager_full_name |-> s_Rui_Silva,
     department |-> s_Engineering, location |-> s_Lisbon, client |-> s_Apollo,
     is_manager |-> FALSE, birth_date |-> <<1990, 6, 15>>,
     start_date |-> <<2025, 6, 1>>, end_date |-> <<2025, 6, 10>>,
     policy_type |-> s_vacation \o s_sp_leave, status |-> status]

\* the text of an optional bound as the filter receives it
BoundText(o) == Lower(Strip(Val(o)))

\* the bound is given, not blank, and is no calendar date of the years 1900..2100
InvalidBound(o) ==
    /\ ~IsNone(o) /\ Len(Strip(Val(o))) > 0
    /\ \/ ~Strptime(BoundText(o)).ok
       \/ ~InYearRange(Strptime(BoundText(o)).date)

\* the failure names the birthday stage and no plan came back
BirthdayFailure ==
    /\ ~result.ok
    /\ result.plan = <<>>
    /\ result.msg.tmpl = "Error in {filter_name} filter: {e}"
    /\ result.msg.strs = <<fn_birthday_filter>>

\* the innermost message of a chain of wrapped messages
RECURSIVE Innermost(_)
Innermost(m) == IF Len(m.inner) = 0 THEN m ELSE Innermost(m.inner[1])

\* C14: when from_next_birthday or to_next_birthday is invalid (wrong format,
\* impossible calendar date, or year outside 1900-2100) get_employees returns
\* a failure attributed to the birthday stage whose message carries the
\* offending bound value, and no plan.
C14_InvalidBoundCarried ==
    (EmployeesDone /\ (InvalidBound(intent0.from_next_birthday)
                       \/ InvalidBound(intent0.to_next_birthday))) =>
        /\ BirthdayFailure
        /\ \/ /\ InvalidBound(intent0.from_next_birthday)
              /\ Mentions(result.msg, BoundText(intent0.from_next_birthday))
           \/ /\ InvalidBound(intent0.to_next_birthday)
              /\ Mentions(result.msg, BoundText(intent0.to_next_birthday))

\* the first invalid bound, from_next_birthday before to_next_birthday
FirstInvalidBound(p) ==
    IF InvalidBound(p.from_next_birthday)
    THEN p.from_next_birthday ELSE p.to_next_birthday

\* C14 amended: when params_preprocess accepts the intent and a birthday bound
\* is invalid, get_employees returns no plan but a failure attributed to the
\* birthday stage; for the first invalid bound (from before to), the message
\* carries the bound's trimmed, lower-cased text if it has the wrong format or
\* is no calendar date, and is "Invalid year range (1900-2100)", without the
\* text, if its year is outside 1900-2100.
C14_InvalidBoundReported ==
    (/\ EmployeesDone
     /\ ~params_preprocess_employee(intent0).raised
     /\ \/ InvalidBound(intent0.from_next_birthday)
        \/ InvalidBound(intent0.to_next_birthday)) =>
        LET b == BoundText(FirstInvalidBound(intent0))
        IN  /\ BirthdayFailure
            /\ IF Strptime(b).ok
               THEN /\ Innermost(result.msg).tmpl = "Invalid year range (1900-2100)"
                    /\ ~Mentions(result.msg, b)
               ELSE /\ Mentions(result.msg, b)
                    /\ Innermost(result.msg).strs = <<b>>

\* C14 witness: the bound "Nov 15" has been answered with a birthday failure
\* that carries "nov 15"
C14_Witness ==
    /\ EmployeesDone
    /\ intent0.from_next_birthday = Some(s_Nov_15)
    /\ BirthdayFailure
    /\ Mentions(result.msg, Lower(s_Nov_15))

\* the filter stages of get_employees and the intent fields each one reads
EmployeeStages ==
    {"name", "manager", "location", "reports_to", "birthday", "client", "department"}

StageFields(stage) ==
    CASE stage = "name" -> {"name"}
      [] stage = "manager" -> {"is_manager"}
      [] stage = "location" -> {"location"}
      [] stage = "reports_to" -> {"reports_to"}
      [] stage = "birthday" -> {"from_next_birthday", "to_next_birthday"}
      [] stage = "client" -> {"client"}
      [] stage = "department" -> {"department"}

\* the intent that sets the fields of one stage as p does, and nothing else
Alone(p, stage) ==
    [f \in DOMAIN p |-> IF f \in StageFields(stage) THEN p[f] ELSE EmployeeDefaults[f]]

\* the record of a manager
ManagerRow == [StoredRow(TRUE, s_approved) EXCEPT !.is_manager = TRUE]

\* C17: in a plan of get_employees a stage whose fields are unset adds no
\* clause; with every filter field unset the only clause is is_active; the
\* clauses a stage adds are those it adds when every other field is unset;
\* is_manager = False is a set value and its clause leaves managers out.
C17_UnsetFieldsAddNothing ==
    (EmployeesDone /\ result.ok) =>
        LET where == result.plan[1].where
        IN  /\ \A stage \in EmployeeStages :
                   /\ (\A f \in StageFields(stage) : IsNone(intent0[f])) =>
                          StageClauses(where, {stage}) = <<>>
                   /\ StageClauses(where, {stage}) =
                          StageClauses(get_employees(Alone(intent0, stage)).result.plan[1].where,
                                       {stage})
            /\ (\A stage \in EmployeeStages : \A f \in StageFields(stage) : IsNone(intent0[f]))
                   => where = <<Clause("is_active", IsTrue("is_active"))>>
            /\ intent0.is_manager = Some(FALSE) =>
                   /\ Len(StageClauses(where, {"manager"})) = 1
                   /\ ~AllHold(StageClauses(where, {"manager"}), ManagerRow, today)
                   /\ AllHold(StageClauses(where, {"manager"}), StoredRow(TRUE, s_approved),
                              today)

\* C17 witness: a plan was returned for is_manager = False and a name
C17_Witness ==
    /\ EmployeesDone /\ result.ok
    /\ intent0.is_manager = Some(FALSE)
    /\ ~IsNone(intent0.name)
    /\ Len(StageClauses(result.plan[1].where, {"manager"})) = 1
    /\ StageClauses(result.plan[1].where, {"location"}) = <<>>

\* the years a bound is rewritten with
AltYears == {1800, 2024, 2025, 2026}

\* the text starts with a four-digit year and a dash
HasYear(s) == Len(s) >= 5 /\ AllDigits(SubSeq(s, 1, 4)) /\ s[5] = "-"

\* the optional bound o with its year replaced by y
WithYear(o, y) ==
    IF IsNone(o) THEN o
    ELSE IF HasYear(Val(o)) THEN Some(Pad4(y) \o SubSeq(Val(o), 5, Len(Val(o))))
    ELSE o

\* the intent p with the years of its birthday bounds replaced
Reyeared(p, yf, yt) ==
    [p EXCEPT !.from_next_birthday = WithYear(@, yf), !.to_next_birthday = WithYear(@, yt)]

\* two results are the same outcome: the same plan, or both a failure
SameOutcome(r1, r2) == IF r1.ok THEN r2 = r1 ELSE ~r2.ok

\* C21 (as stated): intents that differ only in the years of the birthday
\* bounds get the same outcome from get_employees, the same plan or both a
\* failure.
C21_YearIgnored ==
    EmployeesDone =>
        \A yf, yt \in AltYears :
            SameOutcome(result, get_employees(Reyeared(intent0, yf, yt)).result)

\* C21 (amended): intents that differ only in the years of the birthday bounds
\* and for which get_employees returns a plan get the same plan; a change of
\* year alone turns a plan into a failure only when the rewritten bound is
\* out of the years 1900-2100 or is no calendar date.
C21_YearIgnoredWhenValid ==
    (EmployeesDone /\ result.ok) =>
        \A yf, yt \in AltYears :
            LET q == Reyeared(intent0, yf, yt)
                r == get_employees(q).result
            IN  /\ r.ok => r = result
                /\ ~r.ok => \E o \in {q.from_next_birthday, q.to_next_birthday} :
                                /\ ~IsNone(o)
                                /\ \/ ~GivenDate(o)
                                   \/ ~InYearRange(Strptime(Strip(Val(o))).date)

\* C21 witness: a plan was returned for two dated bounds, one rewriting of the
\* years gives the same plan and another gives a failure
C21_Witness ==
    /\ EmployeesDone /\ result.ok
    /\ GivenDate(intent0.from_next_birthday) /\ GivenDate(intent0.to_next_birthday)
    /\ Reyeared(intent0, 2024, 2026) # intent0
    /\ get_employees(Reyeared(intent0, 2024, 2026)).result = result
    /\ ~get_employees(Reyeared(intent0, 1800, 2026)).result.ok

\* the columns an intent gives, each alias replaced by the field it stands for
GivenColumns(p) ==
    IF Truthy(p.select_columns)
    THEN [i \in 1..Len(Val(p.select_columns)) |-> select_key_renamed(Val(p.select_columns)[i])]
    ELSE <<>>

\* the projected fields fs are exactly the given columns cols
ProjectsColumns(fs, cols) ==
    /\ Len(fs) = Len(cols)
    /\ \A i \in 1..Len(cols) : cols[i] \in EmployeeColumns /\ fs[i] = EmployeesField(cols[i])

EmployeeCount == "COUNT(DISTINCT Employees.id) AS total"

\* C23: a plan of get_employees without return_as_count projects exactly the
\* given columns, or the full record when none are given; with return_as_count
\* it projects a distinct count of employee ids, grouped by the given columns
\* and ordered by the count (descending if count_sort_desc is true, ascending
\* otherwise) when columns are given, ungrouped and unordered when none are.
\* A given name that is an attribute of the Employees class and not a field
\* (see C5) is let through and then projected as it is or dropped: TLC finds
\* this violated.
C23_EmployeeProjection ==
    (EmployeesDone /\ result.ok) =>
        LET q == result.plan[1]
            cols == GivenColumns(intent0)
        IN  IF intent0.return_as_count = Some(TRUE)
            THEN /\ q.select[Len(q.select)] = EmployeeCount
                 /\ ProjectsColumns(SubSeq(q.select, 1, Len(q.select) - 1), cols)
                 /\ q.group_by = SubSeq(q.select, 1, Len(q.select) - 1)
                 /\ q.order_by = IF Len(cols) = 0 THEN <<>>
                                 ELSE IF intent0.count_sort_desc = Some(TRUE)
                                 THEN <<"COUNT(DISTINCT Employees.id) DESC">>
                                 ELSE <<"COUNT(DISTINCT Employees.id)">>
            ELSE /\ IF Len(cols) = 0 THEN q.select = <<"Employees.*">>
                    ELSE ProjectsColumns(q.select, cols)
                 /\ q.group_by = <<>> /\ q.order_by = <<>>

\* the filters of get_employees in the order of lines 371-379, by place
FilterAt(i, q, p) ==
    CASE i = 1 -> apply_employee_name_filter(q, p)
      [] i = 2 -> apply_employee_manager_filter(q, p)
      [] i = 3 -> apply_employee_location_filter(q, p)
      [] i = 4 -> apply_employee_reports_to_filter(q, p)
      [] i = 5 -> apply_employee_birthday_filter(q, p)
      [] i = 6 -> apply_employee_client_filter(q, p)
      [] i = 7 -> apply_employee_department_filter(q, p)

FilterNameAt(i) ==
    CASE i = 1 -> fn_name_filter
      [] i = 2 -> fn_manager_filter
      [] i = 3 -> fn_location_filter
      [] i = 4 -> fn_reports_to_filter
      [] i = 5 -> fn_birthday_filter
      [] i = 6 -> fn_client_filter
      [] i = 7 -> fn_department_filter

\* the loop of lines 381-387 over the filters taken in the order `order`,
\* from place k on: the query it ends with, or the first failure
RECURSIVE FilterLoop(_, _, _, _)
FilterLoop(q, p, order, k) ==
    IF k > Len(order) THEN [ok |-> TRUE, query |-> q, failure |-> NoResult]
    ELSE LET r == FilterAt(order[k], q, p)
         IN  IF r.ok THEN FilterLoop(r.query, p, order, k + 1)
             ELSE [ok |-> FALSE, query |-> q,
                   failure |-> FilterError(FilterNameAt(order[k]), r.msg)]

\* get_employees with its filters taken in the order `order`, on an intent
\* params_preprocess has normalised
ReorderedResult(p, order) ==
    LET b == build_employee_base_query(p)
        l == FilterLoop(b.query, p, order, 1)
    IN  IF l.ok THEN Plan(format_employee_results(l.query, b.fields, p)) ELSE l.failure

\* the orders the seven filters can be taken in
FilterOrders == Permutations(1..7)

\* C25: whatever the order the seven filters of get_employees are taken in,
\* the plan has the same set of conjoined predicates (and the same joins,
\* projection, grouping and ordering), and an intent that fails fails with the
\* failure of the same stage.
C25_FilterOrderIrrelevant ==
    (EmployeesDone /\ ~params_preprocess_employee(intent0).raised) =>
        \A order \in FilterOrders :
            LET r == ReorderedResult(params, order)
            IN  IF result.ok
                THEN /\ r.ok
                     /\ Range(r.plan[1].where) = Range(result.plan[1].where)
                     /\ Len(r.plan[1].where) = Len(result.plan[1].where)
                     /\ [r.plan[1] EXCEPT !.where = <<>>] = [result.plan[1] EXCEPT !.where = <<>>]
                ELSE r = result

\* C25 witness: a plan with predicates of all seven stages was returned, and
\* the filters taken in the reverse order build the predicates in another order
C25_Witness ==
    /\ EmployeesDone /\ result.ok
    /\ \A stage \in EmployeeStages : Len(StageClauses(result.plan[1].where, {stage})) > 0
    /\ ReorderedResult(params, [i \in 1..7 |-> 8 - i]).plan[1].where # result.plan[1].where
    /\ Range(ReorderedResult(params, [i \in 1..7 |-> 8 - i]).plan[1].where)
           = Range(result.plan[1].where)

---------------------------------------------------------------------------
(* Claims about both compilers, checked under Spec *)

\* a compiler has returned
CompilerDone == tool \in {"get_employees", "get_time_off"} /\ pc = "done"

\* the plan a compiler returned
ReturnedPlan == result.plan[1]

\* the record, of an active employee and of one who is not
ActiveRows == {StoredRow(b, s_approved) : b \in BOOLEAN}

\* the clause holds of an employee exactly when the employee is active
ConstrainsActive(cl) == \A row \in ActiveRows : Eval(cl.expr, row, today) <=> row.is_active

\* C11: every plan get_employees or get_time_off returns, counting or not,
\* with or without projection columns, holds a clause that is satisfied
\* exactly by the employees whose is_active is true.
C11_PlansConstrainActive ==
    (CompilerDone /\ result.ok) =>
        \E i \in 1..Len(ReturnedPlan.where) : ConstrainsActive(ReturnedPlan.where[i])

\* C11 witness: get_time_off has returned a grouped count plan whose first
\* clause is the is_active constraint
C11_Witness ==
    /\ CompilerDone /\ result.ok
    /\ tool = "get_time_off"
    /\ intent0.return_as_count = Some(TRUE)
    /\ Len(ReturnedPlan.group_by) > 0
    /\ ConstrainsActive(ReturnedPlan.where[1])

\* the record of an active employee, in each status
StatusRows == {StoredRow(TRUE, st) : st \in {s_pending, s_approved, s_rejected}}

\* some clause of the plan holds exactly of the records in the status st
RestrictsStatus(q, st) ==
    \E i \in 1..Len(q.where) :
        \A row \in StatusRows : Eval(q.where[i].expr, row, today) <=> row.status = st

\* C12: a time-off plan restricts the records to status = approved whenever
\* the intent sets no status, and to the given status when it sets one.
\* The code adds a status clause only for a status the intent sets (lines
\* 406-407) and the field defaults to None: TLC finds this violated.
C12_StatusDefaultsApproved ==
    (TimeOffDone /\ result.ok) =>
        IF IsNone(intent0.status)
        THEN RestrictsStatus(ReturnedPlan, s_approved)
        ELSE RestrictsStatus(ReturnedPlan, Val(intent0.status))

\* what a caller can receive: str(query), or the tuple (False, message, text)
IsPlanOrFailure(r) ==
    /\ DOMAIN r = {"ok", "msg", "plan"}
    /\ r.ok => Len(r.plan) = 1 /\ r.msg = NoMsg
    /\ ~r.ok => r.msg.tmpl # "" /\ Len(r.plan) <= 1

\* C13: for every intent get_employees and get_time_off return a compiled
\* plan or a failure (False, message, plan_text): the ValueError of
\* params_preprocess, of the birthday filter and of parse_relative_date, like
\* every other exception, is turned into a failure and none leaves the entry
\* point.
C13_NoExceptionEscapes == CompilerDone => IsPlanOrFailure(result)

\* C13 witness: the ValueError of the employee params_preprocess has been
\* returned as a failure
C13_Witness ==
    /\ CompilerDone
    /\ tool = "get_employees"
    /\ trace = <<"params_preprocess">>
    /\ IsPlanOrFailure(result)
    /\ result.msg.tmpl = "Error retrieving employee data: {e}"

\* C18: when a compiler has returned, every field of the caller's intent
\* object has the value it had before the call.
C18_IntentUntouched ==
    CompilerDone => params = intent0

---------------------------------------------------------------------------
(* Claims about concurrent invocations, checked under SpecThreads *)

\* one stage of either entry point
StepOf(f, td) ==
    IF f.tool = "get_employees" THEN get_employees_step(f) ELSE get_time_off_step(f, td)

\* the local variables of an invocation that has run n stages with no other
\* invocation in the program
RECURSIVE RunAlone(_, _, _)
RunAlone(f, td, n) ==
    IF n = 0 THEN f ELSE RunAlone(StepOf(f, td), td, n - 1)

\* what the entry point returns for an intent when it is the only invocation
ReturnedAlone(p, td) ==
    IF Dispatch(p) = "get_employees" THEN get_employees(p).result
    ELSE get_time_off(p, td).result

\* C19: with several threads inside the compilers, each on its own intent
\* object, at every moment of every interleaving the intent, plan, fields and
\* result of each invocation are what they are after the same number of stages
\* run alone (no invocation reads or writes what another wrote), and an
\* invocation that has returned has returned what it returns alone.
C19_ThreadsIndependent ==
    \A t \in Threads :
        /\ FrameOf(t) = RunAlone(StartFrame(tool[t], intent0[t]), today, Len(trace[t]))
        /\ pc[t] = "done" => result[t] = ReturnedAlone(intent0[t], today)

\* C19 witness: one thread is inside get_employees with its plan partly built
\* while another, having started, is inside get_time_off or has returned from
\* it with a plan
C19_Witness ==
    \E t, u \in Threads :
        /\ t # u
        /\ tool[t] = "get_employees" /\ pc[t] = "birthday"
        /\ Len(query[QuerySlot(t)].where) > 1
        /\ tool[u] = "get_time_off" /\ pc[u] \in {"policy", "done"}
        /\ pc[u] = "done" => result[u].ok

\* C20: applying params_preprocess to an intent it has already normalised
\* changes no field and, for get_employees, is accepted again.
C20_PreprocessIdempotent ==
    (tool \in {"get_employees", "get_time_off"} /\ pc # "preprocess") =>
        /\ tool = "get_time_off" => params_preprocess_time_off(params) = params
        /\ (tool = "get_employees" /\ ~params_preprocess_employee(intent0).raised) =>
               /\ ~params_preprocess_employee(params).raised
               /\ params_preprocess_employee(params).params = params

\* the tokens of a text: what lies between blanks, tabs and line ends
RECURSIVE TokensAcc(_, _)
TokensAcc(s, cur) ==
    IF Len(s) = 0 THEN (IF Len(cur) > 0 THEN <<cur>> ELSE <<>>)
    ELSE IF IsSpace(s[1])
    THEN (IF Len(cur) > 0 THEN <<cur>> ELSE <<>>) \o TokensAcc(Tail(s), <<>>)
    ELSE TokensAcc(Tail(s), Append(cur, s[1]))

Tokens(o) == IF IsNone(o) THEN <<>> ELSE TokensAcc(Val(o), <<>>)

\* every token of the optional text o is in full_name, letter case aside
EveryTokenIn(o, full_name) ==
    \A i \in 1..Len(Tokens(o)) : Contains(Lower(full_name), Lower(Tokens(o)[i]))

\* stored records by the name of the employee and of the manager
s_Ana_Maria == <<"A", "n", "a", " ", "M", "a", "r", "i", "a">>
s_Maria_Lee == <<"M", "a", "r", "i", "a", " ", "L", "e", "e">>
NameRows ==
    {[StoredRow(TRUE, s_approved) EXCEPT !.full_name = n, !.manager_full_name = m] :
        n \in {s_Ana_Maria, s_Maria_Lee, s_Rui_Silva},
        m \in {s_Ana_Maria, s_Maria_Lee, s_Rui_Silva}}

\* the clauses of stage are one per token of o, and hold of exactly the
\* records whose column holds every token
TokenFilter(stage, o, column) ==
    LET clauses == StageClauses(ReturnedPlan.where, {stage})
    IN  /\ Len(clauses) = Len(Tokens(o))
        /\ \A row \in NameRows :
               AllHold(clauses, row, today) <=> EveryTokenIn(o, row[column])

\* C26: in a returned plan the name filters (name and reports_to of
\* get_employees, name of get_time_off) add one substring predicate per token
\* of the text split on whitespace, and a record satisfies them exactly when
\* every token is in the full name, letter case aside; blank texts and
\* repeated separators add nothing. The code splits on the blank only, so
\* tokens separated by a tab are probed for as one text, and the employee
\* filters add a predicate for each empty piece: TLC finds this violated.
C26_NameTokens ==
    (CompilerDone /\ result.ok) =>
        /\ TokenFilter("name", intent0.name, "full_name")
        /\ tool = "get_employees" =>
               TokenFilter("reports_to", intent0.reports_to, "manager_full_name")

---------------------------------------------------------------------------
(* Every entry point together *)

Init == InitDates \/ InitTimeOff \/ InitEmployees

Next == NextDates \/ NextTimeOff \/ NextEmployees

Spec == Init /\ [][Next]_vars

=============================================================================
